---------------------------- MODULE Spec2Model ----------------------------
(***************************************************************************)
(* A model of the decision-and-execution core of the scalper package:      *)
(*   - scalper/core/bus.py            EventBus (queue, worker, start/stop)  *)
(*   - scalper/execution/risk.py      RiskManager                           *)
(*   - scalper/execution/position_tracker.py  Position, Fill, Ledger        *)
(*   - scalper/execution/simulator.py Simulator                             *)
(*   - scalper/execution/order_router.py  LiveRouter                        *)
(*   - scalper/strategy/, scalper/market/indicators.py, spoofing.py         *)
(* The specifications share one list of variables, among them:              *)
(*   SpecBus   the EventBus with publisher threads, a controller thread     *)
(*             calling start()/stop(), and the dispatch worker(s);          *)
(*   SpecRisk  the RiskManager called directly through its API;             *)
(*   SpecSim   the Simulator's three bus handlers (best, tape, intent),     *)
(*             each one atomic because the bus worker runs one at a time.   *)
(* Prices are integers in price units; tick_size is SimCfg.tick_size units, *)
(* so pnl_ticks = diff / tick_size is a rational kept as the pair           *)
(* (diff, tick_size).  Times are integer seconds.                           *)
(***************************************************************************)
EXTENDS Integers, Sequences, FiniteSets, TLC

VARIABLES
    \* ---- EventBus (bus.py) ----
    subs,       \* self._subs: topic -> sequence of handlers, in subscription order
    q,          \* self._q: sequence of [topic, ev, own]
    stopFlag,   \* self._stop
    th,         \* self._th: 0 (None) or the id of the latest worker thread
    wk,         \* worker threads: id -> [pc, topic, ev, own, phase, idx, hs]
    pub,        \* publisher threads: id -> [pc, topic, ev, own] (position inside publish())
    ctl,        \* controller thread: position inside stop()
    log,        \* handler -> sequence of the payloads it was invoked with
    nextEv,     \* id of the next event to publish
    accepted,   \* history: items put on the queue by publish(), in put order
    evicted,    \* history: number of items publish() removed with get_nowait()
    lost,       \* history: events whose publish() returned without enqueuing them
    stopped,    \* history: stop() has been called
    pendingAtStop, \* history: the events that were in the queue when the stop() call
                \* in progress began
    joinTimedOut, \* history: the last stop() returned by its join timeout
    \* ---- RiskManager (risk.py) ----
    rs,         \* [open_qty, last_entry_ts, consec_losses, day_pnl_num]
    clock,      \* time.time(), integer seconds
    enforce,    \* cfg.enforce_market_hours
    rcfg,       \* cfg: the RiskConfig the RiskManager was constructed with
    ret,        \* the last can_enter call: its arguments, the state it saw, its result
    \* ---- Simulator (simulator.py) and Ledger (position_tracker.py) ----
    best_bid, best_ask, symbol,
    bracket,    \* the strategy's bracket settings, the same in every intent of a run
    positions,  \* ledger.positions
    fills,      \* ledger.fills
    realized,   \* ledger.realized_pnl_ticks, as a numerator over tick_size
    nextId,     \* identity of the next Position object
    emitted,    \* events the last handler published on the bus
    audit,      \* history: for each fill of the last handler, what _evaluate_exits saw
    last,       \* the last handler that ran, with the state it started from
    \* ---- LiveRouter (order_router.py) ----
    live,       \* the router: its configuration, quotes, ledger, own RiskState, and
                \* what its last handler did
    \* ---- StrategyPolicy (strategy/policy.py) and SpoofDetector (spoofing.py) ----
    pol,        \* the policy: its loop threads and what its iterations did
    gate,       \* the spoof detector's last verdict and the last apply_gate call
    \* ---- IndicatorEngine (analytics/indicators.py) ----
    ind,        \* the engine's fields, and what its last feed call did
    feed,       \* the bus worker's position inside a best or tape handler
    rd,         \* the policy thread's position inside snapshot()
    \* ---- direct calls of RuleBasedStrategy.propose and MLGate.evaluate ----
    fn          \* the last call: its arguments, what they are afterwards, its result

busVars  == <<subs, q, stopFlag, th, wk, pub, ctl, log, nextEv, accepted, evicted, lost,
              stopped, pendingAtStop, joinTimedOut>>
riskVars == <<rs, clock, enforce, rcfg, ret>>
simVars  == <<best_bid, best_ask, symbol, bracket, positions, fills, realized, nextId,
              emitted, audit, last>>
liveVars == <<live>>
stratVars == <<pol, gate>>
indVars == <<ind, feed, rd>>
callVars == <<fn>>
moreVars == <<liveVars, stratVars, indVars, callVars>>
vars     == <<busVars, riskVars, simVars, moreVars>>

\* Python's None: the string "None" where the other values are strings, and the
\* empty sequence Nil where they are numbers (an Optional[float] x is Some(x)).
None == "None"
Nil == <<>>
Some(x) == <<x>>
Get(o) == o[1]

(***************************************************************************)
(* Bounds of the model.                                                    *)
(***************************************************************************)
MaxQueue   == 2      \* max_queue of the EventBus under test
MaxEvents  == 3      \* publish() calls in a behaviour
MaxWorkers == 2      \* worker threads ever created (start() calls that spawn)
MaxClock   == 2      \* seconds the wall clock advances in a behaviour
MaxIntents == 2      \* positions ever opened in a behaviour
MaxOverQty == 1      \* open quantity direct callers may book above max_pos_qty
MaxDayPnl  == 2      \* |daily P&L| direct callers may book, in price units
MaxSubmits == 2      \* the broker submission of a handler that may raise: 1..MaxSubmits
MaxThreads == 2      \* loop threads a StrategyPolicy starts in a run
MaxDt      == 3      \* longest iteration body, in units of 0.05 s
MaxTs      == 2      \* latest snapshot time of the spoof detector, in seconds
MaxBuf     == 2      \* largest buffer_points of the spoof detector
MaxFeeds   == 2      \* feed calls the indicator engine receives in a behaviour
MaxTicks   == 3      \* largest tp_ticks and sl_ticks of an intent given to evaluate
MaxSubs    == 2      \* longest handler list subscribe() may build for a topic


(***************************************************************************)
(* EventBus (scalper/core/bus.py).                                         *)
(***************************************************************************)
Publishers == {"p1", "p2"}          \* threads that call publish()
\* The topic each publisher thread publishes to (the feed thread of the quotes,
\* the feed thread of the trade prints).
TopicOf(p) == IF p = "p1" THEN "best" ELSE "tape"
Handlers   == {"h1", "h2", "w1"}    \* the subscribed callables

\* self._subs after the subscribe() calls of the set-up: h1 then h2 on "best",
\* w1 on the wildcard topic; nothing on "tape".
Subs(t) ==
    CASE t = "best" -> <<"h1", "h2">>
      [] t = "*"    -> <<"w1">>
      [] OTHER      -> <<>>

\* h1 raises an Exception on every call; the others return normally.
Raises(h) == h = "h1"

\* A queue item: the topic, the event (its identity ev) and the value of the
\* event's own "__topic__" key, None when the event has no such key.
Item(t, e, own) == [topic |-> t, ev |-> e, own |-> own]

\* queue.Queue.put_nowait: Full when the queue holds maxsize items.
QFull(qq) == Len(qq) >= MaxQueue

\* A queue that hands out the item put last.
QueueGetLifo(qq) == [item |-> qq[Len(qq)], rest |-> SubSeq(qq, 1, Len(qq) - 1)]

\* self._q.get() / get_nowait() on a non-empty queue.Queue: the item put
\* first, and the queue without it.
QueueGet(qq) == [item |-> Head(qq), rest |-> Tail(qq)]

\* The index of the handler to call after handler idx of a list of n, given
\* whether it raised: the try/except inside the for loop swallows the
\* exception, so the loop goes on to the next handler either way.
NextHandlerIdx(idx, n, raised) == idx + 1

\* The handlers of one pass of _loop: list(self._subs.get(topic, [])) first,
\* then list(self._subs.get("*", [])), each a copy made when its for loop starts.
HandlersOf(t, phase) == IF phase = "topic" THEN subs[t] ELSE subs["*"]

\* What a handler is called with: the event itself for a topic subscriber,
\* {"__topic__": topic, **event} for a wildcard subscriber, where the event's
\* own "__topic__" key, coming later in the literal, replaces the bus's.
Payload(t, e, own, phase) ==
    IF phase = "topic" THEN [tag |-> own, id |-> e]
    ELSE [tag |-> IF own # None THEN own ELSE t, id |-> e]

Alive(w) == wk[w].pc \notin {"unborn", "dead"}
LiveWorkers == {w \in 1..MaxWorkers : Alive(w)}
InHandler == {w \in 1..MaxWorkers : wk[w].pc = "in"}

IdleWorker == [pc |-> "unborn", topic |-> None, ev |-> 0, own |-> None, phase |-> "topic",
               idx |-> 0, hs |-> <<>>]

\* start(): returns at once when self._th is a live thread.
\* (Variant without the is_alive() guard: every start() spawns a thread.)
StartReturnsEarlyNever(t) == FALSE
StartReturnsEarly(t) == t # 0 /\ Alive(t)

FreshWorkers == {w \in 1..MaxWorkers : wk[w].pc = "unborn"}

\* EventBus.start(), called by the controller thread between its other calls.
Start ==
    /\ ctl = "idle"
    /\ IF StartReturnsEarly(th)
       THEN UNCHANGED <<stopFlag, th, wk>>
       ELSE /\ FreshWorkers # {}
            /\ LET w == CHOOSE x \in FreshWorkers : \A y \in FreshWorkers : x <= y
               IN  /\ stopFlag' = FALSE
                   /\ th' = w
                   /\ wk' = [wk EXCEPT ![w].pc = "check"]
    /\ UNCHANGED <<q, pub, ctl, log, nextEv, accepted, evicted, lost, stopped,
                   pendingAtStop, joinTimedOut>>
    /\ UNCHANGED <<subs, riskVars, simVars, moreVars>>

\* stop(), first statement: self._stop = True.
StopSetFlag ==
    /\ ctl = "idle"
    /\ stopFlag' = TRUE
    /\ ctl' = "stop_put"
    /\ stopped' = TRUE
    /\ pendingAtStop' = {q[i] : i \in {j \in DOMAIN q : q[j].topic # "__stop__"}}
    /\ UNCHANGED <<q, th, wk, pub, log, nextEv, accepted, evicted, lost, joinTimedOut>>
    /\ UNCHANGED <<subs, riskVars, simVars, moreVars>>

\* stop(), second statement: put_nowait(("__stop__", {})), Full ignored.
StopPutSentinel ==
    /\ ctl = "stop_put"
    /\ q' = IF QFull(q) THEN q ELSE Append(q, Item("__stop__", 0, None))
    /\ ctl' = IF th # 0 THEN "stop_join" ELSE "idle"
    /\ UNCHANGED <<stopFlag, th, wk, pub, log, nextEv, accepted, evicted, lost,
                   stopped, pendingAtStop,
                   joinTimedOut>>
    /\ UNCHANGED <<subs, riskVars, simVars, moreVars>>

\* stop(), last statement: self._th.join(timeout=1.0) returns when the worker
\* has ended, or after one second while it is still alive.
StopJoin ==
    /\ ctl = "stop_join"
    /\ ctl' = "idle"
    /\ joinTimedOut' = Alive(th)
    /\ pendingAtStop' = {}
    /\ UNCHANGED <<q, stopFlag, th, wk, pub, log, nextEv, accepted, evicted, lost, stopped>>
    /\ UNCHANGED <<subs, riskVars, simVars, moreVars>>

\* publish(), first put_nowait: enqueue, or catch queue.Full.
PublishPut(p, t, own) ==
    /\ pub[p].pc = "idle"
    /\ nextEv <= MaxEvents
    /\ nextEv' = nextEv + 1
    /\ IF QFull(q)
       THEN /\ pub' = [pub EXCEPT ![p] = [pc |-> "evict", topic |-> t, ev |-> nextEv,
                                           own |-> own]]
            /\ UNCHANGED <<q, accepted>>
       ELSE /\ q' = Append(q, Item(t, nextEv, own))
            /\ accepted' = Append(accepted, Item(t, nextEv, own))
            /\ UNCHANGED pub
    /\ UNCHANGED <<stopFlag, th, wk, ctl, log, evicted, lost, stopped, pendingAtStop,
                   joinTimedOut>>
    /\ UNCHANGED <<subs, riskVars, simVars, moreVars>>

\* publish(), after Full: get_nowait() drops the head of the queue (Empty ignored).
PublishEvict(p) ==
    /\ pub[p].pc = "evict"
    /\ IF q = <<>>
       THEN UNCHANGED <<q, evicted>>
       ELSE /\ q' = QueueGet(q).rest
            /\ evicted' = evicted + 1
    /\ pub' = [pub EXCEPT ![p].pc = "put2"]
    /\ UNCHANGED <<stopFlag, th, wk, ctl, log, nextEv, accepted, lost, stopped,
                   pendingAtStop, joinTimedOut>>
    /\ UNCHANGED <<subs, riskVars, simVars, moreVars>>

\* publish(), second put_nowait: enqueue, any exception ignored.
PublishRetry(p) ==
    /\ pub[p].pc = "put2"
    /\ IF QFull(q)
       THEN /\ lost' = lost \cup {pub[p].ev}
            /\ UNCHANGED <<q, accepted>>
       ELSE /\ q' = Append(q, Item(pub[p].topic, pub[p].ev, pub[p].own))
            /\ accepted' = Append(accepted, Item(pub[p].topic, pub[p].ev, pub[p].own))
            /\ UNCHANGED lost
    /\ pub' = [pub EXCEPT ![p] = [pc |-> "idle", topic |-> None, ev |-> 0, own |-> None]]
    /\ UNCHANGED <<stopFlag, th, wk, ctl, log, nextEv, evicted, stopped, pendingAtStop,
                   joinTimedOut>>
    /\ UNCHANGED <<subs, riskVars, simVars, moreVars>>

\* _loop: the test of `while not self._stop`.
WorkerCheck(w) ==
    /\ wk[w].pc = "check"
    /\ wk' = [wk EXCEPT ![w].pc = IF stopFlag THEN "dead" ELSE "get"]
    /\ UNCHANGED <<q, stopFlag, th, pub, ctl, log, nextEv, accepted, evicted, lost,
                   stopped, pendingAtStop,
                   joinTimedOut>>
    /\ UNCHANGED <<subs, riskVars, simVars, moreVars>>

\* Where _loop stands with the item it once handler idx-1 of the list hs it
\* iterates is done: at the next handler of that list, else, after the topic
\* list, before the copy of the wildcard list (line 81), else back at the top
\* of the while loop.
LoopPosition(it, phase, idx, hs) ==
    IF idx <= Len(hs)
    THEN [pc |-> "run", topic |-> it.topic, ev |-> it.ev, own |-> it.own,
          phase |-> phase, idx |-> idx, hs |-> hs]
    ELSE IF phase = "topic"
    THEN [pc |-> "copy", topic |-> it.topic, ev |-> it.ev, own |-> it.own,
          phase |-> "wild", idx |-> 0, hs |-> <<>>]
    ELSE [pc |-> "check", topic |-> None, ev |-> 0, own |-> None, phase |-> "topic",
          idx |-> 0, hs |-> <<>>]

\* _loop: self._q.get(timeout=0.5): an item, or queue.Empty and `continue`;
\* the "__stop__" item breaks out of the loop.  With an item taken the worker
\* stands before the copy of the topic's handler list (line 74).
WorkerGet(w) ==
    /\ wk[w].pc = "get"
    /\ IF q = <<>>
       THEN /\ wk' = [wk EXCEPT ![w].pc = "check"]
            /\ UNCHANGED q
       ELSE /\ q' = QueueGet(q).rest
            /\ wk' = [wk EXCEPT ![w] =
                        LET it == QueueGet(q).item
                        IN  IF it.topic = "__stop__"
                            THEN [@ EXCEPT !.pc = "dead"]
                            ELSE [pc |-> "copy", topic |-> it.topic,
                                  ev |-> it.ev, own |-> it.own,
                                  phase |-> "topic", idx |-> 0, hs |-> <<>>]]
    /\ UNCHANGED <<stopFlag, th, pub, ctl, log, nextEv, accepted, evicted, lost,
                   stopped, pendingAtStop,
                   joinTimedOut>>
    /\ UNCHANGED <<subs, riskVars, simVars, moreVars>>

\* _loop: list(self._subs.get(topic, [])) or list(self._subs.get("*", [])):
\* the for loop starts on a copy of the list as it is now, which may differ
\* from the list as it was when the item was taken or the topic loop ended.
WorkerCopy(w) ==
    /\ wk[w].pc = "copy"
    /\ wk' = [wk EXCEPT ![w] =
                LoopPosition(Item(wk[w].topic, wk[w].ev, wk[w].own), wk[w].phase, 1,
                             HandlersOf(wk[w].topic, wk[w].phase))]
    /\ UNCHANGED <<q, stopFlag, th, pub, ctl, log, nextEv, accepted, evicted, lost,
                   stopped, pendingAtStop,
                   joinTimedOut>>
    /\ UNCHANGED <<subs, riskVars, simVars, moreVars>>

\* _loop: h(event) is entered for the next handler of the current list.
WorkerCall(w) ==
    /\ wk[w].pc = "run"
    /\ LET h == wk[w].hs[wk[w].idx]
       IN  log' = [log EXCEPT ![h] = Append(@, Payload(wk[w].topic, wk[w].ev, wk[w].own,
                                                       wk[w].phase))]
    /\ wk' = [wk EXCEPT ![w].pc = "in"]
    /\ UNCHANGED <<q, stopFlag, th, pub, ctl, nextEv, accepted, evicted, lost, stopped,
                   pendingAtStop,
                   joinTimedOut>>
    /\ UNCHANGED <<subs, riskVars, simVars, moreVars>>

\* _loop: the handler returns or raises; the loop goes on.
WorkerReturn(w) ==
    /\ wk[w].pc = "in"
    /\ LET hs == wk[w].hs
       IN  wk' = [wk EXCEPT ![w] =
                    LoopPosition(Item(wk[w].topic, wk[w].ev, wk[w].own), wk[w].phase,
                                 NextHandlerIdx(wk[w].idx, Len(hs), Raises(hs[wk[w].idx])),
                                 hs)]
    /\ UNCHANGED <<q, stopFlag, th, pub, ctl, log, nextEv, accepted, evicted, lost,
                   stopped, pendingAtStop,
                   joinTimedOut>>
    /\ UNCHANGED <<subs, riskVars, simVars, moreVars>>

\* EventBus.subscribe(topic, handler): self._subs[topic].append(handler).
Subscribe(t, h) ==
    /\ Len(subs[t]) < MaxSubs
    /\ subs' = [subs EXCEPT ![t] = Append(@, h)]
    /\ UNCHANGED <<q, stopFlag, th, wk, pub, ctl, log, nextEv, accepted, evicted, lost,
                   stopped, pendingAtStop, joinTimedOut>>
    /\ UNCHANGED <<riskVars, simVars, moreVars>>

\* EventBus.unsubscribe(topic, handler): when the handler is in the topic's
\* list, list.remove takes its first occurrence out; else nothing.
Unsubscribe(t, h) ==
    /\ LET s == subs[t]
           i == CHOOSE k \in DOMAIN s : s[k] = h /\ \A j \in 1..(k - 1) : s[j] # h
       IN  subs' = IF \E k \in DOMAIN s : s[k] = h
                   THEN [subs EXCEPT ![t] = [j \in 1..(Len(s) - 1) |->
                                                IF j < i THEN s[j] ELSE s[j + 1]]]
                   ELSE subs
    /\ UNCHANGED <<q, stopFlag, th, wk, pub, ctl, log, nextEv, accepted, evicted, lost,
                   stopped, pendingAtStop, joinTimedOut>>
    /\ UNCHANGED <<riskVars, simVars, moreVars>>

\* State after EventBus(max_queue=MaxQueue): start_worker=True has run start().
BusInit ==
    /\ subs = [t \in {"best", "tape", "*"} |-> Subs(t)]
    /\ q = <<>>
    /\ stopFlag = FALSE
    /\ th = 1
    /\ wk = [w \in 1..MaxWorkers |-> IF w = 1 THEN [IdleWorker EXCEPT !.pc = "check"]
                                      ELSE IdleWorker]
    /\ pub = [p \in Publishers |-> [pc |-> "idle", topic |-> None, ev |-> 0, own |-> None]]
    /\ ctl = "idle"
    /\ log = [h \in Handlers |-> <<>>]
    /\ nextEv = 1
    /\ accepted = <<>>
    /\ evicted = 0
    /\ lost = {}
    /\ stopped = FALSE
    /\ pendingAtStop = {}
    /\ joinTimedOut = FALSE


(***************************************************************************)
(* RiskManager (scalper/execution/risk.py).  A RiskState is the record     *)
(* [open_qty, last_entry_ts, consec_losses, day_pnl_num]; day_pnl_num is   *)
(* _day_pnl_ticks times tick_size, an integer number of price units.       *)
(***************************************************************************)
\* The RiskConfig under test (the dataclass defaults are 1000, 5 and 2.0 s);
\* rcfg is the one the RiskManager holds.
RiskCfg == [max_pos_qty |-> 3, max_consec_losses |-> 2, cooldown_sec |-> 2]

\* RiskManager.__init__
RiskState0 == [open_qty |-> 0, last_entry_ts |-> 0, consec_losses |-> 0, day_pnl_num |-> 0]

\* `now_ts or time.time()`: None and 0 are both falsy, so both mean the wall clock.
EffectiveNow(now_ts, wall) == IF now_ts = Nil \/ now_ts = Some(0) THEN wall ELSE Get(now_ts)

\* time.localtime(ts) for a process whose time zone is UTC: tm_wday (Monday = 0;
\* 1970-01-01 was a Thursday) and tm_hour * 100 + tm_min.
TmWday(ts) == ((ts \div 86400) + 3) % 7
TmHm(ts)   == (((ts % 86400) \div 3600) * 100) + (((ts % 86400) % 3600) \div 60)

\* RiskManager._is_market_open
IsMarketOpen(enf, now_ts, wall) ==
    IF ~enf THEN TRUE
    ELSE LET ts == EffectiveNow(now_ts, wall)
         IN  IF TmWday(ts) >= 5 THEN FALSE
             ELSE (900 <= TmHm(ts) /\ TmHm(ts) < 1130) \/ (1230 <= TmHm(ts) /\ TmHm(ts) < 1500)

\* The position-cap test of can_enter.
\* (Variant that tests the open quantity alone.)
PosLimitHitIgnoringQty(r, qty) == r.open_qty > rcfg.max_pos_qty
PosLimitHit(r, qty) == r.open_qty + qty > rcfg.max_pos_qty

\* (Variant without the loss-streak test.)
CanEnterIgnoringLosses(enf, r, qty, now_ts, wall, wall2) ==
    IF ~IsMarketOpen(enf, now_ts, wall) THEN [ok |-> FALSE, reason |-> "market_closed"]
    ELSE IF qty <= 0 THEN [ok |-> FALSE, reason |-> "qty<=0"]
    ELSE IF PosLimitHit(r, qty) THEN [ok |-> FALSE, reason |-> "pos_limit"]
    ELSE IF EffectiveNow(now_ts, wall2) - r.last_entry_ts < rcfg.cooldown_sec
         THEN [ok |-> FALSE, reason |-> "cooldown"]
    ELSE [ok |-> TRUE, reason |-> "ok"]

\* RiskManager.can_enter(qty, now_ts): (ok, reason); it assigns nothing.  With a
\* falsy now_ts the wall clock is read twice: wall is the reading of the
\* market-hours test (line 40), wall2 the later one of the cooldown test (line 58).
CanEnter(enf, r, qty, now_ts, wall, wall2) ==
    IF ~IsMarketOpen(enf, now_ts, wall) THEN [ok |-> FALSE, reason |-> "market_closed"]
    ELSE IF qty <= 0 THEN [ok |-> FALSE, reason |-> "qty<=0"]
    ELSE IF PosLimitHit(r, qty) THEN [ok |-> FALSE, reason |-> "pos_limit"]
    ELSE IF r.consec_losses >= rcfg.max_consec_losses
         THEN [ok |-> FALSE, reason |-> "too_many_losses"]
    ELSE IF EffectiveNow(now_ts, wall2) - r.last_entry_ts < rcfg.cooldown_sec
         THEN [ok |-> FALSE, reason |-> "cooldown"]
    ELSE [ok |-> TRUE, reason |-> "ok"]

\* RiskManager.can_exit
CanExit == [ok |-> TRUE, reason |-> "ok"]

\* RiskManager.state_snapshot: the dict it builds (day_pnl as its numerator).
StateSnapshot(r) ==
    [open_qty |-> r.open_qty, consec_losses |-> r.consec_losses, day_pnl_num |-> r.day_pnl_num]

Max0(x) == IF x > 0 THEN x ELSE 0

\* max(0, self._open_qty - qty) of on_exit_filled.
\* (Variant without the floor at zero.)
OpenAfterExitUnfloored(open, qty) == open - qty
OpenAfterExit(open, qty) == Max0(open - qty)

\* RiskManager.on_entry_filled(qty)
OnEntryFilled(r, qty, wall) ==
    [r EXCEPT !.open_qty = @ + qty, !.last_entry_ts = wall]

\* RiskManager.on_exit_filled(qty, pnl_ticks), pnl_ticks = pnl_num / tick_size
OnExitFilled(r, qty, pnl_num) ==
    [r EXCEPT !.open_qty = OpenAfterExit(@, qty),
              !.day_pnl_num = @ + pnl_num,
              !.consec_losses = IF pnl_num < 0 THEN @ + 1 ELSE 0]

\* Wall-clock instants a behaviour may start at (seconds since the epoch, UTC):
\* Thursday 09:00:00 (session open), Thursday 11:29:58 (two seconds before the
\* lunch break), Saturday 09:00:00.
StartTimes == {32400, 41398, 205200}

\* Arguments the direct callers pass.
QtyArgs == {-1, 0, 1, 3}
NowArgs(wall) == {Nil} \cup {Some(t) : t \in {0, 1, wall, wall + 1}}
PnlArgs == {-2, 0, 2}

NoCall == [called |-> FALSE]

\* The method of the last direct call recorded in ret.
Op(r) == IF "op" \in DOMAIN r THEN r.op ELSE IF r.called THEN "can_enter" ELSE "none"

\* A later reading of the wall clock within the same call, the first being t:
\* the same second or the next.
Later(t) == {t2 \in {t, t + 1} : \E s \in StartTimes : s <= t /\ t2 <= s + MaxClock}

\* The wall clock advances by one second.
Tick ==
    /\ \E s \in StartTimes : s <= clock /\ clock < s + MaxClock
    /\ clock' = clock + 1
    /\ UNCHANGED <<rs, enforce, rcfg, ret>>
    /\ UNCHANGED <<busVars, simVars, moreVars>>

\* A direct call of can_enter(qty, now_ts).
RiskCanEnter(qty, now_ts) ==
    /\ clock' \in Later(clock)
    /\ ret' = [called |-> TRUE, qty |-> qty, now_ts |-> now_ts, wall |-> clock,
               wall2 |-> clock', before |-> rs,
               res |-> CanEnter(enforce, rs, qty, now_ts, clock, clock')]
    /\ UNCHANGED <<rs, enforce, rcfg>>
    /\ UNCHANGED <<busVars, simVars, moreVars>>

\* A direct call of on_entry_filled(qty), qty > 0.
RiskOnEntryFilled(qty) ==
    /\ qty > 0
    /\ rs.open_qty + qty <= rcfg.max_pos_qty + MaxOverQty
    /\ rs' = OnEntryFilled(rs, qty, clock)
    /\ ret' = [called |-> FALSE, op |-> "on_entry_filled", qty |-> qty, wall |-> clock,
               before |-> rs]
    /\ UNCHANGED <<clock, enforce, rcfg>>
    /\ UNCHANGED <<busVars, simVars, moreVars>>

\* A direct call of on_exit_filled(qty, pnl_ticks), qty > 0.
RiskOnExitFilled(qty, pnl_num) ==
    /\ qty > 0
    /\ rs.consec_losses <= rcfg.max_consec_losses
    /\ rs.day_pnl_num + pnl_num \in -MaxDayPnl..MaxDayPnl
    /\ rs' = OnExitFilled(rs, qty, pnl_num)
    /\ ret' = [called |-> FALSE, op |-> "on_exit_filled", qty |-> qty, pnl_num |-> pnl_num,
               before |-> rs]
    /\ UNCHANGED <<clock, enforce, rcfg>>
    /\ UNCHANGED <<busVars, simVars, moreVars>>

\* A direct call of can_exit().
RiskCanExit ==
    /\ ret' = [called |-> FALSE, op |-> "can_exit", before |-> rs, res |-> CanExit]
    /\ UNCHANGED <<rs, clock, enforce, rcfg>>
    /\ UNCHANGED <<busVars, simVars, moreVars>>

\* A direct call of state_snapshot().
RiskStateSnapshot ==
    /\ ret' = [called |-> FALSE, op |-> "state_snapshot", before |-> rs,
               res |-> StateSnapshot(rs)]
    /\ UNCHANGED <<rs, clock, enforce, rcfg>>
    /\ UNCHANGED <<busVars, simVars, moreVars>>

RiskInit ==
    /\ rs = RiskState0
    /\ clock \in StartTimes
    /\ enforce \in BOOLEAN
    /\ rcfg = RiskCfg
    /\ ret = NoCall


(***************************************************************************)
(* Ledger (scalper/execution/position_tracker.py) and Simulator            *)
(* (scalper/execution/simulator.py).  One price unit is 0.25, so the       *)
(* default tick_size 0.5 is 2 units and 100.0 is 400.  pnl_ticks is kept   *)
(* as its numerator pnl_num over tick_size; max(tick, 1e-9) is tick.       *)
(***************************************************************************)
\* The SimConfig under test: tick_size 0.5; slip_* = slippage_ticks_* x tick_size.
SimCfg == [tick_size |-> 2, slip_entry |-> 0, slip_exit |-> 0]

\* Prices the feed quotes: 100.0, 100.5, 101.0, 101.25, 101.5.
Prices == {400, 402, 404, 405, 406}

\* Python's int(x) of the rational a / b, b > 0: truncation toward zero.
IntTrunc(a, b) == IF a >= 0 THEN a \div b ELSE -((-a) \div b)

Mult(side) == IF side = "BUY" THEN 1 ELSE -1

\* The price _evaluate_exits marks a position at:
\* `self.best_bid if pos.side == "SELL" else self.best_ask`.
MktPx(side, bid, ask) == IF side = "SELL" THEN bid ELSE ask

\* The trailing update of _evaluate_exits for one position at price mkt:
\* the new (peak_ticks, trail_stop_px).
TrailUpdate(pos, mkt, pnl_num, tick) ==
    IF ~pos.trail THEN [peak |-> pos.peak_ticks, stop |-> pos.trail_stop_px]
    ELSE LET peak == IF pnl_num > pos.peak_ticks * tick
                     THEN IntTrunc(pnl_num, tick) ELSE pos.peak_ticks
         IN  [peak |-> peak,
              stop |-> IF peak >= pos.trail_trigger
                       THEN (IF pos.side = "BUY"
                             THEN Some(mkt - pos.trail_gap * tick)
                             ELSE Some(mkt + pos.trail_gap * tick))
                       ELSE pos.trail_stop_px]

TrailBreached(pos, mkt) ==
    /\ pos.trail_stop_px # Nil
    /\ \/ pos.side = "BUY" /\ mkt <= Get(pos.trail_stop_px)
       \/ pos.side = "SELL" /\ mkt >= Get(pos.trail_stop_px)

\* The if / elif chain of _evaluate_exits: the exit kind, or None.
\* (Variant that tests the trailing stop first.)
ExitKindTrailFirst(pos, mkt, pnl_num, tick) ==
    IF TrailBreached(pos, mkt) THEN "EXIT_TRAIL"
    ELSE IF pnl_num >= pos.tp_ticks * tick THEN "EXIT_TP"
    ELSE IF pnl_num <= (-pos.sl_ticks) * tick THEN "EXIT_SL"
    ELSE None
ExitKind(pos, mkt, pnl_num, tick) ==
    IF pnl_num >= pos.tp_ticks * tick THEN "EXIT_TP"
    ELSE IF pnl_num <= (-pos.sl_ticks) * tick THEN "EXIT_SL"
    ELSE IF TrailBreached(pos, mkt) THEN "EXIT_TRAIL"
    ELSE None

RemoveAt(sq, i) == [j \in 1..(Len(sq) - 1) |-> IF j < i THEN sq[j] ELSE sq[j + 1]]

\* record_fill's search: the last index whose position has the fill's symbol, 0 if none.
LastIdxOfSymbol(ps, sym) ==
    LET S == {i \in 1..Len(ps) : ps[i].symbol = sym}
    IN  IF S = {} THEN 0 ELSE CHOOSE i \in S : \A j \in S : j <= i

\* Ledger.record_fill(f, tick_size) on the ledger led = [positions, fills,
\* realized]: the new ledger, the returned pnl (numerator) and, as history,
\* the id of the Position object that was popped (0 if none).
RecordFill(led, f, tick) ==
    LET idx == IF f.kind \in {"EXIT_TP", "EXIT_SL", "EXIT_TRAIL", "EXIT_MANUAL"}
               THEN LastIdxOfSymbol(led.positions, f.symbol) ELSE 0
    IN  IF idx = 0
        THEN [positions |-> led.positions, fills |-> Append(led.fills, f),
              realized |-> led.realized, pnl |-> 0, popped |-> 0]
        ELSE LET pos == led.positions[idx]
                 pnl == (f.price - pos.entry_px) * Mult(pos.side)
             IN  [positions |-> RemoveAt(led.positions, idx),
                  fills |-> Append(led.fills, f),
                  realized |-> led.realized + pnl,
                  pnl |-> pnl, popped |-> pos.id]

\* The while loop of _evaluate_exits from index i (1-based) on the state
\* st = [positions, fills, realized, rs, emitted, audit] with both quotes known.
\* Fill.ts and Position.entry_ts are written once and read by nothing: left out.
RECURSIVE EvalLoop(_, _, _, _, _)
EvalLoop(st, i, bid, ask, wall) ==
    IF i > Len(st.positions) THEN st
    ELSE
    LET tick == SimCfg.tick_size
        pos0 == st.positions[i]
        mkt == MktPx(pos0.side, bid, ask)
        pnl_num == (mkt - pos0.entry_px) * Mult(pos0.side)
        tu == TrailUpdate(pos0, mkt, pnl_num, tick)
        pos == [pos0 EXCEPT !.peak_ticks = tu.peak, !.trail_stop_px = tu.stop]
        kind == ExitKind(pos, mkt, pnl_num, tick)
        ps1 == [st.positions EXCEPT ![i] = pos]
    IN  IF kind = None
        THEN EvalLoop([st EXCEPT !.positions = ps1], i + 1, bid, ask, wall)
        ELSE
        LET px_eff == IF pos.side = "BUY" THEN mkt - SimCfg.slip_exit
                      ELSE mkt + SimCfg.slip_exit
            f == [symbol |-> pos.symbol,
                  side |-> IF pos.side = "BUY" THEN "SELL" ELSE "BUY",
                  qty |-> pos.qty, price |-> px_eff, kind |-> kind]
            rf == RecordFill([positions |-> ps1, fills |-> st.fills,
                              realized |-> st.realized], f, tick)
        IN  EvalLoop([positions |-> rf.positions, fills |-> rf.fills,
                      realized |-> rf.realized,
                      rs |-> OnExitFilled(st.rs, pos.qty, rf.pnl),
                      emitted |-> Append(st.emitted, [topic |-> "exec.fill", what |-> kind]),
                      audit |-> Append(st.audit,
                                  [pos |-> pos, popped |-> rf.popped, mkt |-> mkt,
                                   kind |-> kind, price |-> px_eff, pnl |-> rf.pnl])],
                     i, bid, ask, wall)

\* Simulator._evaluate_exits
EvaluateExits(st, bid, ask, wall) ==
    IF st.positions = <<>> THEN st
    ELSE IF bid = Nil \/ ask = Nil THEN st
    ELSE EvalLoop(st, 1, Get(bid), Get(ask), wall)

SimState == [positions |-> positions, fills |-> fills, realized |-> realized,
             rs |-> rs, emitted |-> <<>>, audit |-> <<>>]

Commit(st) ==
    /\ positions' = st.positions
    /\ fills' = st.fills
    /\ realized' = st.realized
    /\ rs' = st.rs
    /\ emitted' = st.emitted
    /\ audit' = st.audit

\* An event without the "symbol" key; sym = None is the key with the value None.
Absent == "absent"

\* Simulator._on_best(ev): ev.get("symbol", self.symbol), ev.get("bid"), ev.get("ask").
\* Whatever quotes arrive are stored, a crossed or locked book included.
OnBest(sym, b, a) ==
    LET bid == IF b # Nil THEN b ELSE best_bid
        ask == IF a # Nil THEN a ELSE best_ask
    IN  /\ symbol' = IF sym = Absent THEN symbol ELSE sym
        /\ best_bid' = bid
        /\ best_ask' = ask
        /\ LET st == EvaluateExits(SimState, bid, ask, clock) IN Commit(st)
        /\ last' = [op |-> "best", res |-> None]
        /\ UNCHANGED <<bracket, nextId, clock, enforce, rcfg, ret>>
        /\ UNCHANGED <<busVars, stratVars, indVars, callVars>>

\* Simulator._on_tape(ev)
OnTape ==
    /\ LET st == EvaluateExits(SimState, best_bid, best_ask, clock) IN Commit(st)
    /\ last' = [op |-> "tape", res |-> None]
    /\ UNCHANGED <<best_bid, best_ask, symbol, bracket, nextId, clock, enforce, rcfg, ret>>
    /\ UNCHANGED <<busVars, stratVars, indVars, callVars>>

\* (Variant in which an explicit limit that is not crossed fills at the limit.)
DecideEntryPxAtLimit(side, entry_type, limit_price, bid, ask) ==
    IF entry_type = "LIMIT"
    THEN IF limit_price = Nil
         THEN (IF side = "BUY" THEN bid ELSE ask)
         ELSE IF side = "BUY"
              THEN (IF ask # Nil /\ Get(limit_price) >= Get(ask) THEN ask ELSE limit_price)
              ELSE (IF bid # Nil /\ Get(limit_price) <= Get(bid) THEN bid ELSE limit_price)
    ELSE IF side = "BUY" THEN ask ELSE bid

\* Simulator._decide_entry_px: the entry price, or Nil.
DecideEntryPx(side, entry_type, limit_price, bid, ask) ==
    IF entry_type = "LIMIT"
    THEN IF limit_price = Nil
         THEN (IF side = "BUY" THEN bid ELSE ask)
         ELSE IF side = "BUY"
              THEN (IF ask # Nil /\ Get(limit_price) >= Get(ask) THEN ask ELSE Nil)
              ELSE (IF bid # Nil /\ Get(limit_price) <= Get(bid) THEN bid ELSE Nil)
    ELSE IF side = "BUY" THEN ask ELSE bid

\* The result of _on_intent up to the entry decision: "risk" (rejected by
\* can_enter, whose cooldown test reads the clock at wall2), "px" (no entry
\* price) or "open".
IntentOutcome(it, wall2) ==
    IF ~CanEnter(enforce, rs, it.qty, Nil, clock, wall2).ok THEN "risk"
    ELSE IF DecideEntryPx(it.side, it.entry_type, it.price, best_bid, best_ask) = Nil
    THEN "px" ELSE "open"

\* (Variant in which a rejected intent still stamps the last-entry time.)
OnIntentStampingRejected(it, opens, wall2, wall3, end) ==
    LET out == IntentOutcome(it, wall2)
        px == DecideEntryPx(it.side, it.entry_type, it.price, best_bid, best_ask)
        px_eff == IF it.side = "BUY" THEN Get(px) + SimCfg.slip_entry
                  ELSE Get(px) - SimCfg.slip_entry
        pos == [id |-> nextId,
                symbol |-> IF symbol = None THEN "" ELSE symbol,
                side |-> it.side, qty |-> it.qty, entry_px |-> px_eff,
                tp_ticks |-> it.tp_ticks, sl_ticks |-> it.sl_ticks, trail |-> it.trail,
                trail_trigger |-> it.trail_trigger, trail_gap |-> it.trail_gap,
                peak_ticks |-> 0, trail_stop_px |-> Nil]
    IN  /\ out = "open" => nextId <= opens
        /\ IF out = "open"
           THEN /\ positions' = Append(positions, pos)
                /\ rs' = OnEntryFilled(rs, it.qty, wall3)
                /\ nextId' = nextId + 1
                /\ emitted' = <<[topic |-> "exec.position", what |-> "ENTRY"]>>
           ELSE /\ emitted' = <<[topic |-> "exec.log", what |-> out]>>
                /\ rs' = [rs EXCEPT !.last_entry_ts = wall3]
                /\ UNCHANGED <<positions, nextId>>
        /\ audit' = <<>>
        /\ last' = [op |-> "intent", res |-> out]
        /\ clock' = end
        /\ UNCHANGED <<fills, realized, best_bid, best_ask, symbol, bracket,
                       enforce, rcfg, ret>>
        /\ UNCHANGED <<busVars, stratVars, indVars, callVars>>

\* Simulator._on_intent(ev) for ev["intent"] = it, in a behaviour that opens at
\* most opens positions.  The handler starts at clock; can_enter reads the
\* clock again at wall2, on_entry_filled at wall3, and the handler is over at end.
OnIntentWalls(it, opens, wall2, wall3, end) ==
    LET out == IntentOutcome(it, wall2)
        px == DecideEntryPx(it.side, it.entry_type, it.price, best_bid, best_ask)
        px_eff == IF it.side = "BUY" THEN Get(px) + SimCfg.slip_entry
                  ELSE Get(px) - SimCfg.slip_entry
        pos == [id |-> nextId,
                symbol |-> IF symbol = None THEN "" ELSE symbol,
                side |-> it.side, qty |-> it.qty, entry_px |-> px_eff,
                tp_ticks |-> it.tp_ticks, sl_ticks |-> it.sl_ticks, trail |-> it.trail,
                trail_trigger |-> it.trail_trigger, trail_gap |-> it.trail_gap,
                peak_ticks |-> 0, trail_stop_px |-> Nil]
    IN  /\ out = "open" => nextId <= opens
        /\ IF out = "open"
           THEN /\ positions' = Append(positions, pos)
                /\ rs' = OnEntryFilled(rs, it.qty, wall3)
                /\ nextId' = nextId + 1
                /\ emitted' = <<[topic |-> "exec.position", what |-> "ENTRY"]>>
           ELSE /\ emitted' = <<[topic |-> "exec.log", what |-> out]>>
                /\ UNCHANGED <<positions, rs, nextId>>
        /\ audit' = <<>>
        /\ last' = [op |-> "intent", res |-> out]
        /\ clock' = end
        /\ UNCHANGED <<fills, realized, best_bid, best_ask, symbol, bracket,
                       enforce, rcfg, ret>>
        /\ UNCHANGED <<busVars, stratVars, indVars, callVars>>

\* The handler on its own: time passes between its readings of the clock.
OnIntent(it) ==
    \E wall2 \in Later(clock) : \E wall3 \in Later(wall2) :
        OnIntentWalls(it, MaxIntents, wall2, wall3, wall3)

\* The bracket settings the strategy sends: the defaults (tp 3, sl 2, trailing
\* from 2 ticks with a gap of 1), the same with a gap of 0, and trailing off.
Brackets ==
    { [tp_ticks |-> 3, sl_ticks |-> 2, trail |-> TRUE,  trail_trigger |-> 2, trail_gap |-> 1],
      [tp_ticks |-> 3, sl_ticks |-> 2, trail |-> TRUE,  trail_trigger |-> 2, trail_gap |-> 0],
      [tp_ticks |-> 3, sl_ticks |-> 2, trail |-> FALSE, trail_trigger |-> 2, trail_gap |-> 1] }

\* The order part of an intent: quantity, entry style, limit price.
Orders ==
    { [qty |-> 1, entry_type |-> "LIMIT",  price |-> Nil],
      [qty |-> 2, entry_type |-> "MARKET", price |-> Nil],
      [qty |-> 1, entry_type |-> "LIMIT",  price |-> Some(402)],
      [qty |-> 0, entry_type |-> "LIMIT",  price |-> Nil] }

Intents ==
    { [side |-> sd, qty |-> od.qty, entry_type |-> od.entry_type, price |-> od.price,
       tp_ticks |-> br.tp_ticks, sl_ticks |-> br.sl_ticks, trail |-> br.trail,
       trail_trigger |-> br.trail_trigger, trail_gap |-> br.trail_gap] :
      sd \in {"BUY", "SELL"}, od \in Orders, br \in {bracket} }

\* The best events fed to the routers, as <<symbol, bid, ask>>: the uncrossed
\* books of the feed's symbol (the off-grid price 101.25 is quoted as an ask
\* only), a locked and a crossed book, one-sided
\* quotes (an ask alone can lock or cross the stored bid), a book whose symbol
\* is None, and an event with neither quotes nor the symbol key.
Bests ==
    { <<"7203", Some(p[1]), Some(p[2])>> : p \in {x \in (Prices \ {405}) \X Prices : x[1] < x[2]} }
    \cup { <<"7203", Some(402), Some(402)>>, <<"7203", Some(404), Some(402)>> }
    \cup { <<"7203", Some(400), Nil>>, <<Absent, Nil, Some(402)>>, <<"7203", Nil, Some(406)>> }
    \cup { <<None, Some(400), Some(402)>>, <<Absent, Nil, Nil>> }

\* State after Simulator(bus, SimConfig()) with its own RiskManager(RiskConfig).
SimInit ==
    /\ best_bid = Nil /\ best_ask = Nil /\ symbol = None
    /\ bracket \in Brackets
    /\ positions = <<>> /\ fills = <<>> /\ realized = 0 /\ nextId = 1
    /\ emitted = <<>> /\ audit = <<>> /\ last = [op |-> "init", res |-> None]

(***************************************************************************)
(* LiveRouter (scalper/execution/order_router.py).  The router is the      *)
(* record live: its LiveConfig switches, its quotes, its Ledger, its own   *)
(* RiskManager state, and what its last handler (or its constructor) did.  *)
(* The broker client is an input: of the submissions a handler makes, the  *)
(* fail-th raises (0: none does).                                          *)
(***************************************************************************)
\* cfg.live_enabled, and how the constructor's token request went (auth):
\* "none" with no api_password (no client is built), "ok" when the token
\* arrived, "post" when requests.post raised, "answer" when the request was
\* answered and raise_for_status or reading the token raised.
LiveCfgs == { [enabled |-> TRUE,  auth |-> "ok"],
              [enabled |-> FALSE, auth |-> "ok"],
              [enabled |-> TRUE,  auth |-> "none"],
              [enabled |-> TRUE,  auth |-> "post"],
              [enabled |-> TRUE,  auth |-> "answer"] }

\* entry_px of a Position built at line 130 when the quote it reads is None.
NoPx == -1

\* State after LiveRouter(bus, LiveConfig(...)) with its own RiskManager.
\* token is `self.cli is not None and self.cli.token is not None`.  With an
\* api_password the constructor calls KabuSClient.get_token, whose logger is
\* the router's _print: the request line, the status line once the request
\* was answered, and the token line or the router's own token-error line are
\* published as exec.log events.
LiveRouter0(cfg) ==
    [enabled |-> cfg.enabled, token |-> cfg.auth = "ok",
     best_bid |-> Nil, best_ask |-> Nil,
     positions |-> <<>>, fills |-> <<>>, realized |-> 0, rs |-> RiskState0,
     nextId |-> 1,
     emitted |-> [i \in 1..(CASE cfg.auth = "none" -> 0 [] cfg.auth = "post" -> 2
                              [] OTHER -> 3) |->
                    [topic |-> "exec.log",
                     what |-> IF i = 1 THEN "client POST"
                              ELSE IF i = 2 /\ cfg.auth # "post" THEN "client status"
                              ELSE IF cfg.auth = "ok" THEN "client token ok"
                              ELSE "token error"]],
     audit |-> <<>>, op |-> "init", res |-> None,
     raised |-> None, raisedPos |-> 0, sent |-> 0]

\* What a handler starts from: the per-handler history is cleared.
LiveBegin(lv, op) ==
    [lv EXCEPT !.emitted = <<>>, !.audit = <<>>, !.op = op, !.res = None,
               !.raised = None, !.raisedPos = 0, !.sent = 0]

LiveLog(lv, what) == [lv EXCEPT !.emitted = Append(@, [topic |-> "exec.log", what |-> what])]

\* The price sent to the broker by _on_intent: the limit price, the same-side
\* best quote for a LIMIT without price, None for MARKET.
LiveOrderPrice(side, entry_type, price, bid, ask) ==
    IF entry_type = "LIMIT"
    THEN (IF price # Nil THEN price ELSE IF side = "BUY" THEN bid ELSE ask)
    ELSE Nil

\* entry_px of the Position _on_intent tracks locally.
LiveEntryPx(side, price, bid, ask) ==
    IF price # Nil THEN Get(price)
    ELSE LET quote == IF side = "BUY" THEN ask ELSE bid
         IN  IF quote = Nil THEN NoPx ELSE Get(quote)

\* Whether the broker submission number n of a handler raises.
SubmissionRaises(n, fail) == fail # 0 /\ n = fail

\* KabuSClient.send_order through place_simple_entry, submission number n of the
\* handler: its logger is the router's _print, so the request line, and the
\* status line once the broker has answered, are published as exec.log events.
\* A failing submission raises in requests.post (how = "post": no answer, or
\* the token header missing) or after the answer (how = "answer":
\* raise_for_status or r.json()).
SendOrder(lv, n, fail, how) ==
    LET posted == [LiveLog(lv, "client POST") EXCEPT !.sent = n]
    IN  IF SubmissionRaises(n, fail) /\ how = "post" THEN posted
        ELSE LiveLog(posted, "client status")

\* What _on_intent does once place_simple_entry has raised: log and return.
\* (Variant that tracks the position locally all the same.)
AfterEntryErrorTrackAnyway(lv, pos, qty, wall3) ==
    [LiveLog(lv, "send error") EXCEPT
        !.positions = Append(@, pos), !.rs = OnEntryFilled(@, qty, wall3),
        !.res = "send_error", !.raised = "entry"]
AfterEntryError(lv, pos, qty, wall3) ==
    [LiveLog(lv, "send error") EXCEPT !.res = "send_error", !.raised = "entry"]

\* LiveRouter._on_intent(ev) for ev["intent"] = it.  can_enter reads the clock at
\* wall and wall2; on_entry_filled reads it at wall3, after the broker's answer.
LiveOnIntent(lv0, it, fail, how, enf, wall, wall2, wall3) ==
    LET lv == LiveBegin(lv0, "intent") IN
    IF ~lv.enabled THEN [LiveLog(lv, "disabled") EXCEPT !.res = "disabled"]
    ELSE IF ~lv.token THEN [LiveLog(lv, "no token") EXCEPT !.res = "no_token"]
    ELSE IF ~CanEnter(enf, lv.rs, it.qty, Nil, wall, wall2).ok
    THEN [LiveLog(lv, "rejected") EXCEPT !.res = "risk"]
    ELSE
    LET price == LiveOrderPrice(it.side, it.entry_type, it.price, lv.best_bid, lv.best_ask)
        pos == [id |-> lv.nextId, symbol |-> "7203",
                side |-> it.side, qty |-> it.qty,
                entry_px |-> LiveEntryPx(it.side, price, lv.best_bid, lv.best_ask),
                tp_ticks |-> it.tp_ticks, sl_ticks |-> it.sl_ticks, trail |-> it.trail,
                trail_trigger |-> it.trail_trigger, trail_gap |-> it.trail_gap,
                peak_ticks |-> 0, trail_stop_px |-> Nil]
        lv1 == SendOrder(lv, 1, fail, how)
    IN  IF SubmissionRaises(1, fail) THEN AfterEntryError(lv1, pos, it.qty, wall3)
        ELSE [LiveLog(lv1, "entry sent") EXCEPT
                 !.positions = Append(@, pos),
                 !.rs = OnEntryFilled(@, it.qty, wall3),
                 !.nextId = @ + 1,
                 !.emitted = Append(@, [topic |-> "exec.position", what |-> "ENTRY_LIVE"]),
                 !.res = "open"]

\* The while loop of _evaluate_exits_live from index i on, both quotes known.
\* A Position whose entry_px is None makes line 154, or record_fill when it is
\* the position popped, raise TypeError, which ends the handler (the bus
\* swallows it).
RECURSIVE LiveEvalLoop(_, _, _, _, _, _)
LiveEvalLoop(lv, i, bid, ask, fail, how) ==
    IF i > Len(lv.positions) THEN lv
    ELSE IF lv.positions[i].entry_px = NoPx
    THEN [lv EXCEPT !.raised = "type_error", !.raisedPos = lv.positions[i].id]
    ELSE
    LET tick == SimCfg.tick_size
        pos0 == lv.positions[i]
        mkt == MktPx(pos0.side, bid, ask)
        pnl_num == (mkt - pos0.entry_px) * Mult(pos0.side)
        tu == TrailUpdate(pos0, mkt, pnl_num, tick)
        pos == [pos0 EXCEPT !.peak_ticks = tu.peak, !.trail_stop_px = tu.stop]
        kind == ExitKind(pos, mkt, pnl_num, tick)
        lv1 == [lv EXCEPT !.positions[i] = pos]
        lv2 == SendOrder(lv1, lv.sent + 1, fail, how)
    IN  IF ~(kind # None /\ lv.enabled /\ lv.token)
        THEN LiveEvalLoop(lv1, i + 1, bid, ask, fail, how)
        ELSE IF SubmissionRaises(lv.sent + 1, fail)
        THEN [LiveLog(lv2, "exit send error") EXCEPT
                 !.raised = "exit", !.raisedPos = pos.id]
        ELSE
        LET f == [symbol |-> "7203",
                  side |-> IF pos.side = "BUY" THEN "SELL" ELSE "BUY",
                  qty |-> pos.qty, price |-> mkt, kind |-> kind]
            rf == RecordFill([positions |-> lv1.positions, fills |-> lv1.fills,
                              realized |-> lv1.realized], f, tick)
            last_idx == LastIdxOfSymbol(lv1.positions, f.symbol)
        IN  IF lv1.positions[last_idx].entry_px = NoPx
            THEN \* record_fill has appended the fill and popped the position
                 \* when `f.price - pos.entry_px` raises TypeError
                 [LiveLog(lv2, "exit sent") EXCEPT
                     !.positions = RemoveAt(@, last_idx), !.fills = Append(@, f),
                     !.raised = "type_error", !.raisedPos = lv1.positions[last_idx].id]
            ELSE
            LiveEvalLoop(
                [LiveLog(lv2, "exit sent") EXCEPT
                    !.positions = rf.positions, !.fills = rf.fills,
                    !.realized = rf.realized,
                    !.rs = OnExitFilled(@, pos.qty, rf.pnl),
                    !.emitted = Append(@, [topic |-> "exec.fill", what |-> kind]),
                    !.audit = Append(@, [pos |-> pos, popped |-> rf.popped, mkt |-> mkt,
                                         kind |-> kind, price |-> mkt, pnl |-> rf.pnl])],
                i, bid, ask, fail, how)

\* LiveRouter._evaluate_exits_live
LiveEvaluateExits(lv, fail, how) ==
    IF lv.positions = <<>> THEN lv
    ELSE IF lv.best_bid = Nil \/ lv.best_ask = Nil THEN lv
    ELSE LiveEvalLoop(lv, 1, Get(lv.best_bid), Get(lv.best_ask), fail, how)

\* LiveRouter._on_best(ev): whatever quotes arrive are stored, a crossed or
\* locked book included.
LiveOnBest(lv0, b, a, fail, how) ==
    LET lv == LiveBegin(lv0, "best")
    IN  LiveEvaluateExits([lv EXCEPT !.best_bid = IF b # Nil THEN b ELSE @,
                                     !.best_ask = IF a # Nil THEN a ELSE @], fail, how)

\* The fail-th submission of a handler raises; 0: none.
Fails == 0..MaxSubmits

\* The bus worker runs LiveRouter._on_best for a best event.
LiveBest(b, a, fail, how) ==
    /\ fail = 0 => how = "post"
    /\ live' = LiveOnBest(live, b, a, fail, how)
    /\ live'.sent >= fail
    /\ UNCHANGED <<busVars, riskVars, simVars, stratVars, indVars, callVars>>

\* The bus worker runs LiveRouter._on_intent for a strategy.intent event.
LiveIntent(it, fail, how) ==
    /\ fail = 0 => how = "post"
    /\ live.nextId <= MaxIntents
    /\ \E wall2 \in Later(clock) : \E wall3 \in Later(wall2) :
          /\ live' = LiveOnIntent(live, it, fail, how, enforce, clock, wall2, wall3)
          /\ clock' = wall3
    /\ live'.sent >= fail
    /\ UNCHANGED <<rs, enforce, rcfg, ret>>
    /\ UNCHANGED <<busVars, simVars, stratVars, indVars, callVars>>

LiveInit == live \in {LiveRouter0(cfg) : cfg \in LiveCfgs}

(***************************************************************************)
(* SpoofDetector (spoofing.py).  Scores, score_threshold and               *)
(* suppress_weight are in tenths, confidences in hundredths, so that       *)
(* suppress_weight * score is in hundredths; snapshot times are whole      *)
(* seconds.  The detector is the record gate: enabled and buffer_points    *)
(* are the two entries of self.cfg that update_config changes here,        *)
(* suppress_weight is the entry the constructor was given, buf is          *)
(* self.buf (snapshots [t, bid, ask], oldest first), steps is self._steps, *)
(* last is self._last_state (Nil, or Some of a verdict [side, type,        *)
(* score]), call is the last apply_gate call with what it returned, and    *)
(* upd is the last update or update_config call with what it did.  The     *)
(* flash, layering and ping classifiers are inputs of update(): what each  *)
(* of them returns for the snapshot; the walk-away classifier is computed. *)
(***************************************************************************)
\* _DEF_CFG: score_threshold 0.70, suppress_weight 0.20, walk_window_ms 1400,
\* walk_steps_need 3.
SpoofCfg == [score_threshold |-> 7, suppress_weight |-> 2,
             walk_window_ms |-> 1400, walk_steps_need |-> 3]

\* self._steps = deque(maxlen=12).
StepsMaxLen == 12

NoGateCall == [called |-> FALSE]
NoUpdate == [op |-> "none"]

\* SpoofDetector({'buffer_points': cap}).
SpoofDetector0(cap) ==
    [enabled |-> TRUE, buffer_points |-> cap,
     suppress_weight |-> SpoofCfg.suppress_weight, buf |-> <<>>, steps |-> <<>>,
     last |-> Nil, call |-> NoGateCall, upd |-> NoUpdate]

\* proposed_side or '': None and '' both give ''.
OrEmpty(proposed_side) == IF proposed_side = None THEN "" ELSE proposed_side

\* A gate that vetoes on the score alone, whatever the side.
ApplyGateAnySide(g, proposed_side, entry_confidence) ==
    IF g.last = Nil
    THEN [allow |-> TRUE, adj |-> entry_confidence, reason |-> ""]
    ELSE IF Get(g.last).score >= SpoofCfg.score_threshold
         THEN [allow |-> FALSE, adj |-> entry_confidence, reason |-> "veto"]
         ELSE [allow |-> TRUE,
               adj |-> Max0(entry_confidence - g.suppress_weight * Get(g.last).score),
               reason |-> "soft"]

\* apply_gate of the detector g: (allow, adj, reason), from self._last_state
\* and self.cfg['suppress_weight'].
ApplyGate(g, proposed_side, entry_confidence) ==
    IF g.last = Nil
    THEN [allow |-> TRUE, adj |-> entry_confidence, reason |-> ""]
    ELSE IF Get(g.last).score >= SpoofCfg.score_threshold
              /\ Get(g.last).side = OrEmpty(proposed_side)
         THEN [allow |-> FALSE, adj |-> entry_confidence, reason |-> "veto"]
         ELSE [allow |-> TRUE,
               adj |-> Max0(entry_confidence - g.suppress_weight * Get(g.last).score),
               reason |-> "soft"]

\* A deque of maxlen n that was given the items of sq keeps the first n.
TrimKeepOldest(sq, n) == IF Len(sq) <= n THEN sq ELSE SubSeq(sq, 1, n)

\* A deque of maxlen n that was given the items of sq in order: the last n.
Trim(sq, n) == IF Len(sq) <= n THEN sq ELSE SubSeq(sq, Len(sq) - n + 1, Len(sq))

\* The prices of the steps of one side inside the walk window.
WalkSteps(steps, side, t_now) ==
    LET sel == SelectSeq(steps, LAMBDA e :
                   e.side = side /\ (t_now - e.t) * 1000 <= SpoofCfg.walk_window_ms)
    IN  [i \in 1..Len(sel) |-> sel[i].px]

\* count_outward: the steps down (or up) between neighbours of seq.
CountOutward(seq, outward) ==
    Cardinality({i \in 2..Len(seq) :
                    \/ outward = "down" /\ seq[i] < seq[i-1]
                    \/ outward = "up" /\ seq[i] > seq[i-1]})

\* _detect_walk for the snapshot snap, steps and buf already holding it:
\* "none" when it returns None.  self.buf[-2] raises IndexError when the
\* buffer holds fewer than two snapshots, and every State it would build
\* takes its peak_size from self.buf[-6:], a slice of a deque, which raises
\* TypeError; the ask side builds its State without testing its step count.
DetectWalk(steps, buf, snap) ==
    IF Len(steps) < 6 THEN "none"
    ELSE LET steps_b == WalkSteps(steps, "B", snap.t)
             steps_s == WalkSteps(steps, "S", snap.t)
             prev    == buf[Len(buf) - 1]
         IN  IF Len(steps_b) >= 4 /\ Len(buf) < 2 THEN "IndexError"
             ELSE IF /\ Len(steps_b) >= 4
                     /\ prev.bid - snap.bid >= 0
                     /\ CountOutward(Trim(steps_b, 6), "down") >= SpoofCfg.walk_steps_need
                  THEN "TypeError"
             ELSE IF Len(steps_s) >= 4 /\ Len(buf) < 2 THEN "IndexError"
             ELSE IF Len(steps_s) >= 4 /\ snap.ask - prev.ask >= 0 THEN "TypeError"
             ELSE "none"

\* max(..., key=score, default=None) over the verdicts that are not None:
\* the first of the highest score.
RECURSIVE BestFrom(_, _, _)
BestFrom(vs, i, bestv) ==
    IF i > Len(vs) THEN bestv
    ELSE IF vs[i] # Nil /\ (bestv = Nil \/ Get(vs[i]).score > Get(bestv).score)
         THEN BestFrom(vs, i + 1, vs[i])
         ELSE BestFrom(vs, i + 1, bestv)
Best(vs) == BestFrom(vs, 1, Nil)

\* update(ts_ms, best_bid, best_ask, ...) on the detector g; fl, ly and pg are
\* what _detect_flash, _detect_layer and _detect_ping return.
Update(g, ts, bid, ask, fl, ly, pg) ==
    IF ~g.enabled
    THEN [g EXCEPT !.call = NoGateCall,
                   !.upd = [op |-> "update", ran |-> FALSE, raised |-> None,
                            produced |-> <<>>]]
    ELSE LET snap  == [t |-> ts, bid |-> bid, ask |-> ask]
             buf2  == Trim(Append(g.buf, snap), g.buffer_points)
             steps2 == Trim(g.steps \o <<[t |-> ts, side |-> "B", px |-> bid],
                                          [t |-> ts, side |-> "S", px |-> ask]>>,
                            StepsMaxLen)
             walk  == DetectWalk(steps2, buf2, snap)
             g2    == [g EXCEPT !.buf = buf2, !.steps = steps2, !.call = NoGateCall]
         IN  IF walk # "none"
             THEN [g2 EXCEPT !.upd = [op |-> "update", ran |-> TRUE, raised |-> walk,
                                      produced |-> <<fl, ly>>]]
             ELSE [g2 EXCEPT !.last = Best(<<fl, ly, Nil, pg>>),
                             !.upd = [op |-> "update", ran |-> TRUE, raised |-> None,
                                      produced |-> <<fl, ly, Nil, pg>>]]

\* update_config(enabled=...) or update_config(buffer_points=...): kw is the
\* one-entry dict, as a record [key, val].
UpdateConfig(g, kw) ==
    LET g2 == IF kw.key = "enabled" THEN [g EXCEPT !.enabled = kw.val]
                                    ELSE [g EXCEPT !.buffer_points = kw.val]
    IN  [g2 EXCEPT !.buf = Trim(g.buf, g2.buffer_points), !.call = NoGateCall,
                   !.upd = [op |-> "update_config"]]

\* What a classifier returns: None, or a verdict of its type.
Outcomes(type, sides, scores) ==
    {Nil} \cup {Some([side |-> sd, type |-> type, score |-> sc]) : sd \in sides,
                                                                   sc \in scores}
\* The verdicts the gate is asked about: scores 0.0, 0.5, 0.7 and 1.0.
Verdicts == Outcomes("flash", {"B", "S"}, {0, 5, 7, 10})
ProposedSides == {"B", "S", "", None}
\* The confidences the gate is asked about, 0.0 to 1.0 (the trading loop
\* passes 1.0), and the suppress_weight values a detector is built with.
Confidences == {0, 10, 50, 100}
Weights == {0, SpoofCfg.suppress_weight, 10}

\* The time of the newest step, 0 before the first update.
LastTs(g) == IF g.steps = <<>> THEN 0 ELSE g.steps[Len(g.steps)].t

\* The layering and ping classifiers can return a verdict only when
\* self.buf[-2] exists once the snapshot is appended: the buffer holds an
\* earlier snapshot and keeps at least two.
HasPrev(g) == g.enabled /\ g.buffer_points >= 2 /\ Len(g.buf) >= 1

\* A call of update(), with any ts_ms: the code does not compare it with the
\* earlier ones.  The flash classifier can return a verdict only for a
\* candidate in self._cand, which an earlier update() that ran has started
\* (the record does not hold the candidates; whenever an update() has run,
\* self._steps is not empty); it does not look at self.buf[-2].
SpoofUpdate(ts, bid, ask, fl, ly, pg) ==
    /\ ts <= MaxTs
    /\ fl # Nil => gate.enabled /\ gate.steps # <<>>
    /\ (ly # Nil \/ pg # Nil) => HasPrev(gate)
    /\ gate' = Update(gate, ts, bid, ask, fl, ly, pg)
    /\ UNCHANGED <<busVars, riskVars, simVars, liveVars, indVars, callVars, pol>>

\* A call of update_config().
SpoofUpdateConfig(kw) ==
    /\ gate' = UpdateConfig(gate, kw)
    /\ UNCHANGED <<busVars, riskVars, simVars, liveVars, indVars, callVars, pol>>

SpoofApplyGate(proposed_side, entry_confidence) ==
    /\ gate' = [gate EXCEPT !.call =
                  [called |-> TRUE, side |-> proposed_side, conf |-> entry_confidence,
                   res |-> ApplyGate(gate, proposed_side, entry_confidence)]]
    /\ UNCHANGED <<busVars, riskVars, simVars, liveVars, indVars, callVars, pol>>

(***************************************************************************)
(* RuleBasedStrategy (strategy/rules.py), MLGate (strategy/ml_gate.py) and *)
(* StrategyPolicy (strategy/policy.py).  Imbalance and probabilities are   *)
(* in hundredths, recent_return_abs_max in tenths of a tick, the loop      *)
(* interval and elapsed times in units of 0.05 s.  The policy is the       *)
(* record pol: stop is self._stop, th is self._th (0: None, else the index *)
(* of the latest loop thread), threads are the loop threads ever started,  *)
(* caller is the position of the thread that calls start() and stop(),     *)
(* last is what the last iteration body did (forgotten when the next one   *)
(* begins), and slept is how long the sleep after it lasted.               *)
(***************************************************************************)
\* RuleConfig defaults; the SMA25, MACD and RSI filters are off.
RuleCfg ==
    [tick_size |-> 2, spread_ticks_max |-> 1, imbalance_th |-> 60,
     pushes_per_min_min |-> 40, use_vwap_filter |-> TRUE,
     use_sma25_filter |-> FALSE, use_macd_filter |-> FALSE, use_rsi_filter |-> FALSE,
     use_recent_return_filter |-> TRUE, recent_return_abs_max |-> 15,
     default_qty |-> 100, entry_type |-> "LIMIT", tp_ticks |-> 3, sl_ticks |-> 2,
     trail_enabled |-> TRUE, trail_trigger |-> 2, trail_gap |-> 1]

\* MLGateConfig: min_prob 0.55, min_ev_ticks 0.0, cost_ticks 0.10.
MLCfg == [min_prob |-> 55, min_ev |-> 0, cost |-> 10]

\* PolicyConfig.loop_interval_sec: 0.10 s.
LoopInterval == 2

Abs(x) == IF x < 0 THEN -x ELSE x

\* _spread_ok: spread / tick_size <= spread_ticks_max.
SpreadOk(cfg, spread) ==
    /\ spread # Nil
    /\ cfg.tick_size > 0
    /\ Get(spread) <= cfg.spread_ticks_max * cfg.tick_size

\* A filter without the range test: only a return in the entry direction
\* rejects.
RecentReturnOkEntryOnly(cfg, r, side) ==
    IF ~cfg.use_recent_return_filter \/ r = Nil THEN TRUE
    ELSE LET t10 == Get(r) * 10
             mx  == cfg.recent_return_abs_max * cfg.tick_size
         IN  /\ ~(side = "BUY" /\ t10 * 10 > mx * 8)
             /\ ~(side = "SELL" /\ t10 * 10 < -(mx * 8))

\* _recent_return_ok; r is features["recent_return_ticks"] as the price
\* difference it was computed from (ticks = difference / tick_size).  The
\* product recent_return_abs_max * 0.8 is 1.2000000000000002 as a double; a
\* return is a multiple of a quarter of a tick here, so none lies between 1.2
\* and that.
RecentReturnOk(cfg, r, side) ==
    IF ~cfg.use_recent_return_filter \/ r = Nil THEN TRUE
    ELSE LET t10 == Get(r) * 10        \* ten times the return, in tick_size units
             mx  == cfg.recent_return_abs_max * cfg.tick_size
         IN  /\ ~(Abs(t10) > mx)
             /\ ~(side = "BUY" /\ t10 * 10 > mx * 8)
             /\ ~(side = "SELL" /\ t10 * 10 < -(mx * 8))

\* _apply_technicals: the VWAP, SMA25, MACD and RSI filters, each applied
\* when its switch is on and its data is there.
ApplyTechnicals(cfg, snap, side) ==
    /\ (cfg.use_vwap_filter /\ snap.vwap # Nil /\ snap.last_price # Nil)
          => /\ (side = "BUY" => Get(snap.last_price) >= Get(snap.vwap))
             /\ (side = "SELL" => Get(snap.last_price) <= Get(snap.vwap))
    /\ (cfg.use_sma25_filter /\ snap.sma25 # Nil /\ snap.last_price # Nil)
          => /\ (side = "BUY" => Get(snap.last_price) >= Get(snap.sma25))
             /\ (side = "SELL" => Get(snap.last_price) <= Get(snap.sma25))
    /\ (cfg.use_macd_filter /\ snap.macd # Nil /\ snap.macd_sig # Nil)
          => /\ (side = "BUY" => Get(snap.macd) >= Get(snap.macd_sig))
             /\ (side = "SELL" => Get(snap.macd) <= Get(snap.macd_sig))
    /\ (cfg.use_rsi_filter /\ snap.rsi14 # Nil)
          => /\ (side = "BUY" => Get(snap.rsi14) <= 70)
             /\ (side = "SELL" => Get(snap.rsi14) >= 30)

\* The side the imbalance selects, None when it is inside the threshold.
ImbalanceSide(cfg, imb) ==
    IF imb >= cfg.imbalance_th THEN "BUY"
    ELSE IF imb <= -cfg.imbalance_th THEN "SELL" ELSE None

\* The OrderIntent propose builds for a side.
BuildIntent(cfg, snap, side) ==
    [side |-> side, qty |-> cfg.default_qty, entry_type |-> cfg.entry_type,
     price |-> IF cfg.entry_type = "LIMIT"
               THEN (IF side = "BUY" THEN snap.best_bid ELSE snap.best_ask)
               ELSE Nil,
     tp_ticks |-> cfg.tp_ticks, sl_ticks |-> cfg.sl_ticks,
     trail |-> cfg.trail_enabled, trail_trigger |-> cfg.trail_trigger,
     trail_gap |-> cfg.trail_gap]

\* propose: what the call does (raised, or the intent returned, Nil for None)
\* and the snapshot, the features and self.cfg as the call leaves them.  Every
\* assignment of propose and of its three helpers binds a local name (reasons,
\* imb, side, price, entry_type, intent, ticks, r), reasons.append extends the
\* local list and OrderIntent(...) builds a new object, so the three are left
\* as they came.  A snapshot whose pushes_per_min is None makes the comparison
\* at line 120 raise TypeError.
Propose(cfg, snap, r) ==
    LET ends(raised, intent) ==
            [raised |-> raised, intent |-> intent,
             snap |-> snap, features |-> r, cfg |-> cfg]
    IN  IF snap.best_bid = Nil \/ snap.best_ask = Nil THEN ends(FALSE, Nil)
        ELSE IF ~SpreadOk(cfg, snap.spread) THEN ends(FALSE, Nil)
        ELSE IF snap.pushes_per_min = Nil THEN ends(TRUE, Nil)
        ELSE IF Get(snap.pushes_per_min) < cfg.pushes_per_min_min THEN ends(FALSE, Nil)
        ELSE IF snap.imbalance = Nil THEN ends(FALSE, Nil)
        ELSE LET side == ImbalanceSide(cfg, Get(snap.imbalance))
             IN  IF side = None THEN ends(FALSE, Nil)
                 ELSE IF ~RecentReturnOk(cfg, r, side) THEN ends(FALSE, Nil)
                 ELSE IF ~ApplyTechnicals(cfg, snap, side) THEN ends(FALSE, Nil)
                 ELSE ends(FALSE, Some(BuildIntent(cfg, snap, side)))

(***************************************************************************)
(* The arithmetic of MLGate.evaluate is that of Python floats, IEEE-754    *)
(* doubles with round-to-nearest-even.  A double is the record [neg, mag]: *)
(* mag is its magnitude in units of 2^-60, kept as three limbs of 21 bits  *)
(* <<a2, a1, a0>> worth a2 * 2^42 + a1 * 2^21 + a0.  The double nearest to *)
(* a probability k/100 >= 0.01 is a multiple of 2^-59, so every exact sum, *)
(* difference and product by a tick count that evaluate forms is a         *)
(* multiple of 2^-60, and all are below 8 = 2^63 units.                    *)
(***************************************************************************)
Limb == 2^21
DZero == [neg |-> FALSE, mag |-> <<0, 0, 0>>]

\* Limbs brought back into 0 .. Limb - 1, the carries moved up.
Carry(m) ==
    LET s1 == m[2] + (m[3] \div Limb)
    IN  <<m[1] + (s1 \div Limb), s1 % Limb, m[3] % Limb>>

MagAdd(x, y) == Carry(<<x[1] + y[1], x[2] + y[2], x[3] + y[3]>>)
MagTimes(x, n) == Carry(<<x[1] * n, x[2] * n, x[3] * n>>)
MagLess(x, y) ==
    \/ x[1] < y[1]
    \/ x[1] = y[1] /\ x[2] < y[2]
    \/ x[1] = y[1] /\ x[2] = y[2] /\ x[3] < y[3]
\* x - y for magnitudes x >= y.
MagSub(x, y) ==
    LET b0 == IF x[3] < y[3] THEN 1 ELSE 0
        b1 == IF x[2] - b0 < y[2] THEN 1 ELSE 0
    IN  <<x[1] - y[1] - b1, x[2] - b0 - y[2] + b1 * Limb, x[3] - y[3] + b0 * Limb>>

RECURSIVE BitLen(_)
BitLen(n) == IF n = 0 THEN 0 ELSE 1 + BitLen(n \div 2)

\* The magnitude rounded to 53 significant bits, to nearest, ties to even.
\* sticky says that the exact value has a non-zero part below the last limb.
\* A magnitude of 42 + BitLen(a2) bits loses the bits beyond 53, at most 10.
Round53(m, sticky) ==
    LET drop == BitLen(m[1]) - 11
    IN  IF drop <= 0 THEN m
        ELSE LET unit == 2^drop
                 rem  == m[3] % unit
                 odd  == (m[3] \div unit) % 2 = 1
                 up   == \/ rem * 2 > unit
                         \/ rem * 2 = unit /\ (sticky \/ odd)
             IN  Carry(<<m[1], m[2], m[3] - rem + (IF up THEN unit ELSE 0)>>)

\* The double a literal k/100 denotes (0.55, 0.10, 0.70): the quotient
\* k * 2^60 / 100 by long division over the limbs, rounded.
FromHundredths(k) ==
    LET n2 == k * 2^18
        n1 == (n2 % 100) * Limb
        n0 == (n1 % 100) * Limb
    IN  [neg |-> FALSE,
         mag |-> Round53(<<n2 \div 100, n1 \div 100, n0 \div 100>>, n0 % 100 # 0)]

\* x * n for a double x and an int n >= 1 (the int becomes a float exactly).
DTimes(x, n) == [neg |-> x.neg, mag |-> Round53(MagTimes(x.mag, n), FALSE)]

\* x - y for doubles.
DSub(x, y) ==
    IF x.neg # y.neg THEN [neg |-> x.neg, mag |-> Round53(MagAdd(x.mag, y.mag), FALSE)]
    ELSE IF MagLess(x.mag, y.mag)
         THEN [neg |-> ~x.neg, mag |-> Round53(MagSub(y.mag, x.mag), FALSE)]
    ELSE [neg |-> x.neg /\ x.mag # y.mag, mag |-> Round53(MagSub(x.mag, y.mag), FALSE)]

\* x >= y for doubles.
DGe(x, y) ==
    IF x.neg # y.neg THEN y.neg
    ELSE IF x.neg THEN ~MagLess(y.mag, x.mag) ELSE ~MagLess(x.mag, y.mag)

\* The estimate a gate works with: external says whether the gate was built
\* with a proba_fn, out is what the estimate in use returns, in hundredths,
\* Nil when it raises.
External(out) == [external |-> TRUE, out |-> out]
Heuristic(out) == [external |-> FALSE, out |-> out]

\* Lines 80-86 of evaluate: an exception of proba_fn is caught and p is 0.5;
\* one of _heuristic_proba (math.exp overflows) leaves evaluate.
Proba(est) ==
    IF est.external
    THEN [raised |-> FALSE, p |-> IF est.out = Nil THEN 50 ELSE Get(est.out)]
    ELSE IF est.out = Nil THEN [raised |-> TRUE, p |-> 0]
    ELSE [raised |-> FALSE, p |-> Get(est.out)]

\* evaluate: [raised, go, prob, ev].  prob is the probability in hundredths
\* (the double nearest to it is what the code holds), ev is the double
\* ev_ticks.
Evaluate(enabled, est, intent) ==
    IF ~enabled THEN [raised |-> FALSE, go |-> TRUE, prob |-> 50, ev |-> DZero]
    ELSE IF Proba(est).raised
         THEN [raised |-> TRUE, go |-> FALSE, prob |-> 0, ev |-> DZero]
    ELSE LET p  == FromHundredths(Proba(est).p)
             tp == IF intent.tp_ticks > 1 THEN intent.tp_ticks ELSE 1
             sl == IF intent.sl_ticks > 1 THEN intent.sl_ticks ELSE 1
             ev == DSub(DSub(DTimes(p, tp), DTimes(DSub(FromHundredths(100), p), sl)),
                        FromHundredths(MLCfg.cost))
         IN  [raised |-> FALSE,
              go |-> /\ DGe(p, FromHundredths(MLCfg.min_prob))
                     /\ DGe(ev, FromHundredths(MLCfg.min_ev)),
              prob |-> Proba(est).p, ev |-> ev]

\* What an iteration publishes on the bus.
PubDebug(note) == [topic |-> "strategy.debug", note |-> note, intent |-> Nil]
PubDecision(dec) ==
    [topic |-> "strategy.decision", note |-> IF dec.go THEN "go" ELSE "nogo",
     intent |-> Nil]
PubIntent(intent) == [topic |-> "strategy.intent", note |-> "", intent |-> Some(intent)]

\* An iteration whose stage raised: the except clause publishes the error on
\* the debug topic and the iteration is over.
Caught(stages, stage, intent) ==
    [stages |-> stages, raised |-> stage, intent |-> intent, go |-> FALSE,
     pub |-> <<PubDebug("error")>>]

\* The try block of one iteration of _loop.  snapIn is what snapshot_provider
\* returns (Nil: it raises), rrIn what recent_return_provider returns (Nil: it
\* raises), pIn what _heuristic_proba gives (Nil: it raises); the policy
\* builds its gate as MLGate(ml_cfg), without a proba_fn.
Iteration(has_rr, ml_enabled, snapIn, rrIn, pIn) ==
    IF snapIn = Nil THEN Caught(<<"snapshot">>, "snapshot", Nil)
    ELSE IF has_rr /\ rrIn = Nil
         THEN Caught(<<"snapshot", "recent">>, "recent", Nil)
    ELSE LET snap == Get(snapIn)
             r    == IF has_rr THEN rrIn ELSE Nil
             st2  == IF has_rr THEN <<"snapshot", "recent", "propose">>
                               ELSE <<"snapshot", "propose">>
             prop == Propose(RuleCfg, snap, r)
         IN  IF prop.raised THEN Caught(st2, "propose", Nil)
             ELSE IF prop.intent = Nil
                  THEN [stages |-> Append(st2, "skip"), raised |-> None,
                        intent |-> Nil, go |-> FALSE,
                        pub |-> <<PubDebug("no_intent")>>]
             ELSE LET dec == Evaluate(ml_enabled, Heuristic(pIn), Get(prop.intent))
                      st3 == Append(st2, "ml")
                  IN  IF dec.raised THEN Caught(st3, "ml", prop.intent)
                      ELSE IF dec.go
                           THEN [stages |-> Append(st3, "publish"), raised |-> None,
                                 intent |-> prop.intent, go |-> TRUE,
                                 pub |-> <<PubDecision(dec),
                                           PubIntent(Get(prop.intent))>>]
                           ELSE [stages |-> Append(st3, "skip"), raised |-> None,
                                 intent |-> prop.intent, go |-> FALSE,
                                 pub |-> <<PubDecision(dec)>>]

\* A MarketSnapshot without the 5-minute indicators (sma25, macd, macd_sig
\* and rsi14 default to None).
Snap(bid, ask, spread, pushes, imb, lastpx, vwap) ==
    [best_bid |-> bid, best_ask |-> ask, spread |-> spread, pushes_per_min |-> pushes,
     imbalance |-> imb, last_price |-> lastpx, vwap |-> vwap,
     sma25 |-> Nil, macd |-> Nil, macd_sig |-> Nil, rsi14 |-> Nil]

\* MarketSnapshots as the dataclass declares them (pushes_per_min a float): a
\* BUY set-up, a SELL set-up, no quotes, a weak imbalance, a BUY set-up below
\* VWAP, a wide spread.
BuySetUp == Snap(Some(400), Some(402), Some(2), Some(60), Some(70), Some(402), Some(400))
SellSetUp == Snap(Some(400), Some(402), Some(2), Some(60), Some(-70), Some(400), Some(402))
Snaps ==
    { BuySetUp, SellSetUp,
      Snap(Nil, Nil, Nil, Some(60), Nil, Nil, Nil),
      Snap(Some(400), Some(402), Some(2), Some(60), Some(10), Some(402), Some(400)),
      Snap(Some(400), Some(402), Some(2), Some(60), Some(70), Some(400), Some(402)),
      Snap(Some(400), Some(404), Some(4), Some(60), Some(70), Some(402), Some(400)) }

\* What the snapshot provider of a policy returns: the snapshots above, and
\* an object whose pushes_per_min is None (the provider is any callable).
PolicySnaps ==
    Snaps \cup
    { Snap(Some(400), Some(402), Some(2), Nil, Some(70), Some(402), Some(400)) }
SnapInputs == {Nil} \cup {Some(s) : s \in PolicySnaps}
ReturnInputs == {Nil, Some(0), Some(4)}
ProbInputs == {Nil, Some(40), Some(60)}

NoIteration == [th |-> 0]

StrategyPolicy0(has_rr, ml_enabled) ==
    [has_rr |-> has_rr, ml_enabled |-> ml_enabled, stop |-> FALSE, th |-> 0,
     threads |-> <<>>, caller |-> "idle", last |-> NoIteration, slept |-> 0]

PolAlive(p, i) == i \in 1..Len(p.threads) /\ p.threads[i].alive

\* A start() that never returns early.
PolStartReturnsEarlyNever(p) == FALSE

\* start(): self._th and self._th.is_alive().
PolStartReturnsEarly(p) == p.th # 0 /\ PolAlive(p, p.th)

\* Where the loop thread goes after the try block when the except clause
\* restarted the body instead of falling through to the sleep.
AfterTryRetry(raised) == IF raised # None THEN "body" ELSE "sleep"

\* Where the loop thread goes after the try block: to the sleep, whether or
\* not the except clause ran.
AfterTry(raised) == "sleep"

\* start(), called by the controlling thread.
PolStart ==
    /\ pol.caller = "idle"
    /\ IF PolStartReturnsEarly(pol)
       THEN pol' = pol
       ELSE /\ Len(pol.threads) < MaxThreads
            /\ pol' = [pol EXCEPT !.stop = FALSE,
                                  !.threads = Append(@, [alive |-> TRUE, pc |-> "while"]),
                                  !.th = Len(pol.threads) + 1]
    /\ UNCHANGED <<busVars, riskVars, simVars, liveVars, indVars, callVars, gate>>

\* stop(): self._stop = True, then the join when there is a thread.
PolStopSetFlag ==
    /\ pol.caller = "idle"
    /\ pol' = [pol EXCEPT !.stop = TRUE,
                          !.caller = IF pol.th # 0 THEN "join" ELSE "idle"]
    /\ UNCHANGED <<busVars, riskVars, simVars, liveVars, indVars, callVars, gate>>

\* join(timeout=1.0) returns: the thread has exited, or the timeout expired.
PolStopJoin ==
    /\ pol.caller = "join"
    /\ pol' = [pol EXCEPT !.caller = "idle"]
    /\ UNCHANGED <<busVars, riskVars, simVars, liveVars, indVars, callVars, gate>>

\* while not self._stop, and t0 = time.time() when the loop goes on.
PolLoopTest(i) ==
    /\ PolAlive(pol, i) /\ pol.threads[i].pc = "while"
    /\ pol' = IF pol.stop
              THEN [pol EXCEPT !.threads[i] = [alive |-> FALSE, pc |-> "done"]]
              ELSE [pol EXCEPT !.threads[i].pc = "body", !.last = NoIteration,
                               !.slept = 0]
    /\ UNCHANGED <<busVars, riskVars, simVars, liveVars, indVars, callVars, gate>>

\* The try/except of one iteration, and dt = time.time() - t0 after it.
\* The recent-return provider is called only when there is one, and the
\* probability estimate is computed only by an enabled gate.
PolIterate(i) ==
    /\ PolAlive(pol, i) /\ pol.threads[i].pc = "body"
    /\ \E snapIn \in SnapInputs,
          rrIn \in (IF pol.has_rr THEN ReturnInputs ELSE {Nil}),
          pIn \in (IF pol.ml_enabled THEN ProbInputs ELSE {Nil}),
          dt \in 0..MaxDt :
          LET it == Iteration(pol.has_rr, pol.ml_enabled, snapIn, rrIn, pIn)
          IN  pol' = [pol EXCEPT !.threads[i].pc = AfterTry(it.raised),
                                 !.last = [th |-> i, stages |-> it.stages,
                                           raised |-> it.raised, intent |-> it.intent,
                                           go |-> it.go, pub |-> it.pub, dt |-> dt],
                                 !.slept = 0]
    /\ UNCHANGED <<busVars, riskVars, simVars, liveVars, indVars, callVars, gate>>

\* time.sleep(max(0.0, loop_interval_sec - dt)).
PolSleep(i) ==
    /\ PolAlive(pol, i) /\ pol.threads[i].pc = "sleep"
    /\ pol' = [pol EXCEPT !.threads[i].pc = "while",
                          !.slept = Max0(LoopInterval - pol.last.dt)]
    /\ UNCHANGED <<busVars, riskVars, simVars, liveVars, indVars, callVars, gate>>

PolInit == pol \in {StrategyPolicy0(rr, ml) : rr \in BOOLEAN, ml \in BOOLEAN}

(***************************************************************************)
(* propose and evaluate called directly.  fn is the last call: the object  *)
(* it was made on (the gate's estimate, the strategy's configuration), its *)
(* arguments, and in out what the call did.                                *)
(***************************************************************************)
NoFn == [op |-> "none"]

\* The intents evaluate is given: tp_ticks and sl_ticks as RuleConfig sets
\* them, 0 included.
GateTicks == 0..MaxTicks
GateIntent(tp, sl) ==
    [BuildIntent(RuleCfg, BuySetUp, "BUY") EXCEPT !.tp_ticks = tp, !.sl_ticks = sl]
\* The probability estimates, in hundredths: the ends of the heuristic's
\* clamp, both sides of min_prob, 0.70 (where the expected value of TP 1,
\* SL 2 is 0), and Nil for an estimate that raises; from the built-in
\* heuristic and from a proba_fn.
GateOuts == {Nil, Some(1), Some(40), Some(55), Some(60), Some(70), Some(99)}
GateProbs == {Heuristic(o) : o \in GateOuts} \cup {External(o) : o \in GateOuts}

\* features["recent_return_ticks"] as a price difference: none, 0, and 1.5
\* and 2 ticks either way.
ProposeReturns == {Nil, Some(-4), Some(-3), Some(0), Some(3), Some(4)}

\* The configurations propose runs under: the RuleConfig defaults with each
\* of the four technical filters switched on or off.
RuleCfgs ==
    { [RuleCfg EXCEPT !.use_vwap_filter = vw, !.use_sma25_filter = sm,
                      !.use_macd_filter = mc, !.use_rsi_filter = rsi] :
        vw \in BOOLEAN, sm \in BOOLEAN, mc \in BOOLEAN, rsi \in BOOLEAN }

\* A snapshot with the 5-minute indicators filled in.
Tech(snap, sma25, macd, macd_sig, rsi14) ==
    [snap EXCEPT !.sma25 = Some(sma25), !.macd = Some(macd),
                 !.macd_sig = Some(macd_sig), !.rsi14 = Some(rsi14)]

\* The snapshots propose is called with: those above, and set-ups with
\* indicators: a BUY below SMA25, with MACD under its signal, with RSI 80 and
\* with all three in line; a SELL with RSI 20, one above SMA25 and over the
\* MACD signal, and one with all three in line.
ProposeSnaps ==
    Snaps \cup
    { Tech(BuySetUp, 404, 1, 0, 50), Tech(BuySetUp, 400, -1, 1, 50),
      Tech(BuySetUp, 400, 1, 0, 80), Tech(BuySetUp, 402, 1, 1, 70),
      Tech(SellSetUp, 402, -1, 0, 20), Tech(SellSetUp, 398, 2, 1, 50),
      Tech(SellSetUp, 400, 0, 0, 30) }

\* MLGate(cfg, proba_fn).evaluate(intent, feats).
CallEvaluate(enabled, est, tp, sl) ==
    /\ fn' = [op |-> "evaluate", enabled |-> enabled, est |-> est,
              intent |-> GateIntent(tp, sl),
              out |-> Evaluate(enabled, est, GateIntent(tp, sl))]
    /\ UNCHANGED <<busVars, riskVars, simVars, liveVars, stratVars, ind, feed, rd>>

\* RuleBasedStrategy(cfg).propose(snap, features).
CallPropose(cfg, snap, r) ==
    /\ fn' = [op |-> "propose", cfg |-> cfg, snap |-> snap, r |-> r,
              out |-> Propose(cfg, snap, r)]
    /\ UNCHANGED <<busVars, riskVars, simVars, liveVars, stratVars, ind, feed, rd>>

(***************************************************************************)
(* IndicatorEngine (scalper/analytics/indicators.py).  The engine is the   *)
(* record ind with the fields the quote, trade and reference feeds write:  *)
(* prev_close, last_price, best_bid, best_ask, bid_qty, ask_qty, the VWAP  *)
(* sums and vwap (turnover over volume, kept as the pair [num, den]), and  *)
(* the push times of the last minute.  The 5-minute bars and the           *)
(* indicators computed from them (SMA25, MACD, RSI, swings) and the price  *)
(* history of get_return are not part of the record.  A field of an event  *)
(* is Nil (None), Some(x) (the number x) or Bad (a value float() rejects). *)
(* raised is the exception the last feed call ended with, op and malformed *)
(* say which feed it was and whether one of its fields was not a number,   *)
(* tape is the history of the trade events applied so far, as pairs        *)
(* [price, size], and fed counts the feed calls.                           *)
(***************************************************************************)
Bad == <<0, 0>>
IsNum(v) == Len(v) = 1

IndicatorEngine0 ==
    [prev_close |-> Nil, last_price |-> Nil, best_bid |-> Nil, best_ask |-> Nil,
     bid_qty |-> Nil, ask_qty |-> Nil, cum_turnover |-> 0, cum_vol |-> 0, vwap |-> Nil,
     push_ts |-> <<>>, raised |-> None, op |-> "init", malformed |-> FALSE,
     tape |-> <<>>, fed |-> 0]

\* The engine as a feed call finds it: no exception pending.
IndBegin(e, op, malformed) ==
    [e EXCEPT !.raised = None, !.op = op, !.malformed = malformed, !.fed = @ + 1]

\* feed_ref(previous_close): None is skipped, a value float() rejects is
\* swallowed by the try/except.
FeedRef(e0, previous_close) ==
    LET e == IndBegin(e0, "ref", previous_close = Bad)
    IN  IF IsNum(previous_close) THEN [e EXCEPT !.prev_close = previous_close] ELSE e

\* if v is not None: self.<field> = float(v), which raises ValueError for a
\* value that is not a number.
SetField(e, field, v) ==
    IF e.raised # None \/ v = Nil THEN e
    ELSE IF v = Bad THEN [e EXCEPT !.raised = "ValueError"]
    ELSE [e EXCEPT ![field] = v]

\* The times left in _push_ts after the old ones were popped from the left.
RECURSIVE PopOld(_, _)
PopOld(ts, t) ==
    IF ts # <<>> /\ Head(ts) < t - 60 THEN PopOld(Tail(ts), t) ELSE ts

\* _mark_push(ts); wall is time.time().
MarkPush(e, ts, wall) ==
    LET t == IF ts # Nil THEN Get(ts) ELSE wall
    IN  [e EXCEPT !.push_ts = PopOld(Append(e.push_ts, t), t)]

\* feed_best(bid, bid_qty, ask, ask_qty, ts).
FeedBest(e0, bid, bid_qty, ask, ask_qty, ts, wall) ==
    LET e  == IndBegin(e0, "best", Bad \in {bid, bid_qty, ask, ask_qty})
        s1 == SetField(e, "best_bid", bid)
        s2 == SetField(s1, "best_ask", ask)
        s3 == SetField(s2, "bid_qty", bid_qty)
        s4 == SetField(s3, "ask_qty", ask_qty)
    IN  IF s4.raised # None THEN s4 ELSE MarkPush(s4, ts, wall)

\* A feed that also accumulates trades of size 0 or less.
CountsForVwapAnySize(size) == TRUE

\* if size > 0.
CountsForVwap(size) == size > 0

\* feed_trade_like(price, size, ts): size > 0 raises TypeError for a size that
\* is not a number; for a price that is not, the accumulation raises TypeError
\* when size > 0, and otherwise float(price) raises TypeError for None and
\* ValueError for a string.  Nothing was assigned before any of them.
FeedTradeLike(e0, price, size, ts, wall) ==
    LET e == IndBegin(e0, "tape", ~IsNum(price) \/ ~IsNum(size))
    IN  IF ~IsNum(size) THEN [e EXCEPT !.raised = "TypeError"]
        ELSE IF ~IsNum(price)
        THEN [e EXCEPT !.raised = IF Get(size) > 0 \/ price = Nil
                                  THEN "TypeError" ELSE "ValueError"]
        ELSE LET acc == CountsForVwap(Get(size))
                 tv  == IF acc THEN e.cum_turnover + Get(price) * Get(size)
                               ELSE e.cum_turnover
                 vol == IF acc THEN e.cum_vol + Get(size) ELSE e.cum_vol
                 e2  == [e EXCEPT !.cum_turnover = tv, !.cum_vol = vol,
                                  !.vwap = IF acc /\ vol > 0
                                           THEN Some([num |-> tv, den |-> vol])
                                           ELSE @,
                                  !.last_price = price,
                                  !.tape = Append(@, [price |-> Get(price),
                                                      size |-> Get(size)])]
             IN  MarkPush(e2, ts, wall)

\* imbalance(): Nil for None, else the fraction [num, den].
Imbalance(e) ==
    IF e.bid_qty = Nil \/ e.ask_qty = Nil THEN Nil
    ELSE LET s == Get(e.bid_qty) + Get(e.ask_qty)
         IN  IF s <= 0 THEN Nil
             ELSE Some([num |-> Get(e.bid_qty) - Get(e.ask_qty), den |-> s])

\* The events the feeds deliver: prices 100.0 and 100.5 or malformed,
\* quantities and sizes including 0 and a negative one.
IndPrices == {Nil, Some(400), Some(402), Bad}
IndBids == {Nil, Some(400), Bad}
IndAsks == {Nil, Some(402), Bad}
IndQtys == {Nil, Some(0), Some(2), Some(-1), Bad}
IndSizes == {Nil, Some(-1), Some(0), Some(1), Some(2)}
\* An event without ts is stamped with time.time(); one stamped more than a
\* minute later empties the push window.
IndTs(wall) == {Nil, Some(wall + 61)}

\* The bus worker runs the handler of a ref, best or tape event.
IndFeedRef(previous_close) ==
    /\ ind.fed < MaxFeeds
    /\ ind' = FeedRef(ind, previous_close)
    /\ UNCHANGED <<busVars, riskVars, simVars, liveVars, stratVars, callVars, feed, rd>>

IndFeedBest(bid, bid_qty, ask, ask_qty, ts) ==
    /\ ind.fed < MaxFeeds
    /\ ind' = FeedBest(ind, bid, bid_qty, ask, ask_qty, ts, clock)
    /\ UNCHANGED <<busVars, riskVars, simVars, liveVars, stratVars, callVars, feed, rd>>

IndFeedTradeLike(price, size, ts) ==
    /\ ind.fed < MaxFeeds
    /\ ind' = FeedTradeLike(ind, price, size, ts, clock)
    /\ UNCHANGED <<busVars, riskVars, simVars, liveVars, stratVars, callVars, feed, rd>>

(***************************************************************************)
(* The engine between two threads.  The bus worker runs the best and tape  *)
(* handlers (main_policy_demo.py subscribes them), the Strategy Policy     *)
(* thread calls snapshot() from its loop; neither takes a lock, so the     *)
(* interpreter may switch threads between any two attribute accesses.      *)
(* feed is the worker's position inside the handler it runs, rd is the     *)
(* policy thread's position inside snapshot(): the attribute it reads      *)
(* next (pc), the values it holds (a, s), the arguments of MarketSnapshot  *)
(* evaluated so far (part) and the snapshot returned (snap).  feed.views   *)
(* is the history of what snapshot() returns on the engine as it stood     *)
(* between two dispatches.  microprice() and the attributes read after     *)
(* pushes_per_min fill fields that are not part of the record.             *)
(***************************************************************************)
Max(a, b) == IF a >= b THEN a ELSE b

\* snapshot() run without interruption: the spread of line 247-248, then the
\* arguments of MarketSnapshot(...).
Snapshot(e) ==
    [last_price |-> e.last_price, prev_close |-> e.prev_close,
     best_bid |-> e.best_bid, best_ask |-> e.best_ask,
     bid_qty |-> e.bid_qty, ask_qty |-> e.ask_qty,
     spread |-> IF e.best_bid # Nil /\ e.best_ask # Nil
                THEN Some(Max(0, Get(e.best_ask) - Get(e.best_bid))) ELSE Nil,
     imbalance |-> Imbalance(e), vwap |-> e.vwap,
     pushes_per_min |-> Len(e.push_ts)]

FeedIdle == [pc |-> "idle", ev |-> Nil, views |-> {Snapshot(IndicatorEngine0)}]
RdIdle == [pc |-> "idle", a |-> Nil, s |-> 0, part |-> Snapshot(IndicatorEngine0),
           snap |-> Nil]
IndParked == ind = IndicatorEngine0 /\ feed = FeedIdle /\ rd = RdIdle /\ fn = NoFn
IndInit == IndParked

\* The quotes and trades the feed publishes while the policy loop runs.
BestEvents ==
    { [topic |-> "best", bid |-> Some(b), ask |-> Some(b + 2),
       bid_qty |-> Some(n), ask_qty |-> Some(3 - n)] : b \in {400, 404}, n \in {1, 2} }
TapeEvents == { [topic |-> "tape", price |-> Some(p), size |-> Some(1)] : p \in {400, 404} }

\* The order of the assignments in feed_best and feed_trade_like.
NextPc(pc) ==
    CASE pc = "best_bid" -> "best_ask"
      [] pc = "best_ask" -> "bid_qty"
      [] pc = "bid_qty"  -> "ask_qty"
      [] pc = "ask_qty"  -> "mark"
      [] pc = "vwap"     -> "last_price"
      [] pc = "last_price" -> "mark"
      [] OTHER -> "idle"

\* The bus worker dispatches a best or tape event: the handler is entered.
HandlerBegin(ev) ==
    /\ feed.pc = "idle"
    /\ ind.fed < MaxFeeds
    /\ ind' = IndBegin(ind, ev.topic, FALSE)
    /\ feed' = [feed EXCEPT !.pc = IF ev.topic = "best" THEN "best_bid" ELSE "vwap",
                            !.ev = Some(ev)]
    /\ UNCHANGED <<busVars, riskVars, simVars, liveVars, stratVars, callVars, rd>>

\* The handler's next statement.
HandlerStep ==
    /\ feed.pc # "idle"
    /\ LET ev == Get(feed.ev)
           e2 == CASE feed.pc = "best_bid" -> SetField(ind, "best_bid", ev.bid)
                   [] feed.pc = "best_ask" -> SetField(ind, "best_ask", ev.ask)
                   [] feed.pc = "bid_qty"  -> SetField(ind, "bid_qty", ev.bid_qty)
                   [] feed.pc = "ask_qty"  -> SetField(ind, "ask_qty", ev.ask_qty)
                   [] feed.pc = "vwap" ->
                        [ind EXCEPT !.cum_turnover = @ + Get(ev.price) * Get(ev.size),
                                    !.cum_vol = @ + Get(ev.size),
                                    !.vwap = Some([num |-> ind.cum_turnover
                                                           + Get(ev.price) * Get(ev.size),
                                                   den |-> ind.cum_vol + Get(ev.size)])]
                   [] feed.pc = "last_price" ->
                        [ind EXCEPT !.last_price = ev.price,
                                    !.tape = Append(@, [price |-> Get(ev.price),
                                                        size |-> Get(ev.size)])]
                   [] OTHER -> MarkPush(ind, Nil, clock)
       IN  /\ ind' = e2
           /\ feed' = [feed EXCEPT
                         !.pc = NextPc(feed.pc),
                         !.ev = IF NextPc(feed.pc) = "idle" THEN Nil ELSE @,
                         !.views = IF NextPc(feed.pc) = "idle"
                                   THEN @ \cup {Snapshot(e2)} ELSE @]
    /\ UNCHANGED <<busVars, riskVars, simVars, liveVars, stratVars, callVars, rd>>

\* The policy thread enters snapshot(): `self.best_bid is not None`, the first
\* test of line 247; when it fails the spread stays None.
SnapshotBegin ==
    /\ rd.pc \in {"idle", "done"}
    /\ rd' = [RdIdle EXCEPT !.pc = IF ind.best_bid = Nil THEN "last_price"
                                   ELSE "spread_ask_test"]
    /\ UNCHANGED <<busVars, riskVars, simVars, liveVars, stratVars, callVars, ind, feed>>

\* The policy thread's next read of an attribute of the engine, in the order
\* of lines 247-260: the tests and the operands of the spread, the six
\* fields passed as they are, the reads of imbalance() (the None test, the
\* sum, the difference, each of bid_qty then ask_qty), and vwap.
SnapshotRead ==
    /\ rd.pc \notin {"idle", "done", "pushes"}
    /\ rd' =
         CASE rd.pc = "spread_ask_test" ->
                [rd EXCEPT !.pc = IF ind.best_ask = Nil THEN "last_price" ELSE "spread_ask"]
           [] rd.pc = "spread_ask" -> [rd EXCEPT !.pc = "spread_bid", !.a = ind.best_ask]
           [] rd.pc = "spread_bid" ->
                [rd EXCEPT !.pc = "last_price", !.a = Nil,
                           !.part.spread = Some(Max(0, Get(rd.a) - Get(ind.best_bid)))]
           [] rd.pc = "last_price" ->
                [rd EXCEPT !.pc = "prev_close", !.part.last_price = ind.last_price]
           [] rd.pc = "prev_close" ->
                [rd EXCEPT !.pc = "best_bid", !.part.prev_close = ind.prev_close]
           [] rd.pc = "best_bid" ->
                [rd EXCEPT !.pc = "best_ask", !.part.best_bid = ind.best_bid]
           [] rd.pc = "best_ask" ->
                [rd EXCEPT !.pc = "bid_qty", !.part.best_ask = ind.best_ask]
           [] rd.pc = "bid_qty" ->
                [rd EXCEPT !.pc = "ask_qty", !.part.bid_qty = ind.bid_qty]
           [] rd.pc = "ask_qty" ->
                [rd EXCEPT !.pc = "imb_test_bid", !.part.ask_qty = ind.ask_qty]
           [] rd.pc = "imb_test_bid" ->
                [rd EXCEPT !.pc = "imb_test_ask", !.a = ind.bid_qty]
           [] rd.pc = "imb_test_ask" ->
                [rd EXCEPT !.pc = IF rd.a = Nil \/ ind.ask_qty = Nil THEN "vwap"
                                  ELSE "imb_sum_bid",
                           !.a = Nil]
           [] rd.pc = "imb_sum_bid" ->
                [rd EXCEPT !.pc = "imb_sum_ask", !.a = ind.bid_qty]
           [] rd.pc = "imb_sum_ask" ->
                LET sum == Get(rd.a) + Get(ind.ask_qty)
                IN  [rd EXCEPT !.pc = IF sum <= 0 THEN "vwap" ELSE "imb_diff_bid",
                               !.a = Nil, !.s = IF sum <= 0 THEN 0 ELSE sum]
           [] rd.pc = "imb_diff_bid" ->
                [rd EXCEPT !.pc = "imb_diff_ask", !.a = ind.bid_qty]
           [] rd.pc = "imb_diff_ask" ->
                [rd EXCEPT !.pc = "vwap", !.a = Nil, !.s = 0,
                           !.part.imbalance = Some([num |-> Get(rd.a) - Get(ind.ask_qty),
                                                    den |-> rd.s])]
           [] OTHER -> [rd EXCEPT !.pc = "pushes", !.part.vwap = ind.vwap]
    /\ UNCHANGED <<busVars, riskVars, simVars, liveVars, stratVars, callVars, ind, feed>>

\* The policy thread reads len(self._push_ts), the last field of the record,
\* and returns the MarketSnapshot.
SnapshotEnd ==
    /\ rd.pc = "pushes"
    /\ rd' = [RdIdle EXCEPT !.pc = "done",
                            !.snap = Some([rd.part EXCEPT
                                             !.pushes_per_min = Len(ind.push_ts)])]
    /\ UNCHANGED <<busVars, riskVars, simVars, liveVars, stratVars, callVars, ind, feed>>

(***************************************************************************)
(* Specifications.                                                         *)
(***************************************************************************)
LiveParked == live = LiveRouter0([enabled |-> TRUE, auth |-> "ok"])
StratParked == pol = StrategyPolicy0(FALSE, FALSE) /\ gate = SpoofDetector0(MaxBuf)

RiskParked == rs = RiskState0 /\ clock = 32400 /\ enforce = FALSE /\ rcfg = RiskCfg /\ ret = NoCall

SimParked == SimInit /\ bracket = CHOOSE br \in Brackets : br.trail /\ br.trail_gap = 1

InitBus == BusInit /\ RiskParked /\ SimParked /\ LiveParked /\ IndParked /\ StratParked
NextBus ==
    \/ Start
    \/ StopSetFlag
    \/ StopPutSentinel
    \/ StopJoin
    \/ \E p \in Publishers : PublishPut(p, TopicOf(p), None)
    \/ \E p \in Publishers : PublishEvict(p)
    \/ \E p \in Publishers : PublishRetry(p)
    \/ \E w \in 1..MaxWorkers : WorkerCheck(w)
    \/ \E w \in 1..MaxWorkers : WorkerGet(w)
    \/ \E w \in 1..MaxWorkers : WorkerCopy(w)
    \/ \E w \in 1..MaxWorkers : WorkerCall(w)
    \/ \E w \in 1..MaxWorkers : WorkerReturn(w)
SpecBus == InitBus /\ [][NextBus]_vars

\* The bus with publishers that also publish to the topic "*" itself, whose
\* events may carry a "__topic__" key of their own, and with handlers
\* subscribed and unsubscribed while it runs (h1 on "best", h2 on "tape");
\* start() and stop() are not called.
WildTopics(p) == IF p = "p1" THEN {TopicOf(p)} ELSE {TopicOf(p), "*"}
InitWild == InitBus
NextWild ==
    \/ \E p \in Publishers : \E t \in WildTopics(p), own \in {None, "forged"} :
          PublishPut(p, t, own)
    \/ \E p \in Publishers : PublishEvict(p)
    \/ \E p \in Publishers : PublishRetry(p)
    \/ \E c \in {<<"best", "h1">>, <<"tape", "h2">>} : Subscribe(c[1], c[2])
    \/ \E c \in {<<"best", "h1">>, <<"tape", "h2">>} : Unsubscribe(c[1], c[2])
    \/ \E w \in 1..MaxWorkers : WorkerCheck(w)
    \/ \E w \in 1..MaxWorkers : WorkerGet(w)
    \/ \E w \in 1..MaxWorkers : WorkerCopy(w)
    \/ \E w \in 1..MaxWorkers : WorkerCall(w)
    \/ \E w \in 1..MaxWorkers : WorkerReturn(w)
SpecWild == InitWild /\ [][NextWild]_vars

InitRisk == BusInit /\ RiskInit /\ SimParked /\ LiveParked /\ IndParked /\ StratParked
NextRisk ==
    \/ Tick
    \/ \E qty \in QtyArgs, now_ts \in NowArgs(clock) : RiskCanEnter(qty, now_ts)
    \/ \E qty \in QtyArgs : RiskOnEntryFilled(qty)
    \/ \E qty \in QtyArgs, pnl \in PnlArgs : RiskOnExitFilled(qty, pnl)
    \/ RiskCanExit
    \/ RiskStateSnapshot
SpecRisk == InitRisk /\ [][NextRisk]_vars


BusParked == BusInit

InitSim == BusParked /\ RiskParked /\ SimInit /\ LiveParked /\ IndParked /\ StratParked
NextSim ==
    \/ Tick
    \/ (\E ev \in Bests : OnBest(ev[1], ev[2], ev[3])) /\ UNCHANGED liveVars
    \/ OnTape /\ UNCHANGED liveVars
    \/ (\E it \in Intents : OnIntent(it)) /\ UNCHANGED liveVars
SpecSim == InitSim /\ [][NextSim]_vars

\* The Simulator with a RiskManager(RiskConfig(max_pos_qty=4,
\* max_consec_losses=2, cooldown_sec=0)): market intents of quantities 1, 2
\* and 4 without trailing, quotes with the ask at 402 and the bid at 400 or
\* three ticks lower, while the wall clock advances.
CapCfg == [max_pos_qty |-> 4, max_consec_losses |-> 2, cooldown_sec |-> 0]
CapQtys == {1, 2, 4}
CapBids == {Some(394), Some(400)}
CapAsks == {Some(402)}
CapIntents ==
    { [side |-> sd, qty |-> n, entry_type |-> "MARKET", price |-> Nil,
       tp_ticks |-> bracket.tp_ticks, sl_ticks |-> bracket.sl_ticks,
       trail |-> bracket.trail, trail_trigger |-> bracket.trail_trigger,
       trail_gap |-> bracket.trail_gap] : sd \in {"BUY", "SELL"}, n \in CapQtys }
InitCap == /\ BusParked /\ SimInit /\ ~bracket.trail
           /\ rs = RiskState0 /\ clock = 32400 /\ enforce = FALSE /\ ret = NoCall
           /\ rcfg = CapCfg
           /\ LiveParked /\ IndParked /\ StratParked
NextCap ==
    \/ Tick
    \/ (\E b \in CapBids, a \in CapAsks : OnBest("7203", b, a))
          /\ UNCHANGED liveVars
    \/ (\E it \in CapIntents : \E wall2 \in Later(clock) : \E wall3 \in Later(wall2) :
            OnIntentWalls(it, MaxIntents + 2, wall2, wall3, wall3))
          /\ UNCHANGED liveVars
SpecCap == InitCap /\ [][NextCap]_vars

\* The policy next to the Simulator, both fed the same quotes.  The policy
\* loop runs in a thread of its own: it takes a snapshot, the strategy
\* proposes from it, the ML gate (disabled, as MLGateConfig has it) lets the
\* intent pass and the policy publishes it; the bus worker hands it to the
\* Simulator later.  These steps share nothing with the Simulator but the
\* published intent, so PolicyIntent is the delivery of an intent made from a
\* snapshot taken at any time: the quotes the Simulator holds on delivery may
\* be those of the snapshot or others.  The Risk Manager has the RiskConfig
\* defaults.  Intents of other publishers reach the Simulator on the same
\* topic.
RiskCfgDefault == [max_pos_qty |-> 1000, max_consec_losses |-> 5, cooldown_sec |-> 2]
EntryBids == {396, 400}
EntryAsks == {402, 404}
EntrySnaps ==
    { Snap(Some(b), Some(a), Some(Max0(a - b)), Some(60), Some(imb), Some(b), Some(b)) :
        b \in EntryBids, a \in EntryAsks, imb \in {-70, 70} }
PolicyIntent(snap, r) ==
    /\ Propose(RuleCfg, snap, r).intent # Nil
    /\ Evaluate(FALSE, Heuristic(Nil), Get(Propose(RuleCfg, snap, r).intent)).go
    /\ OnIntent(Get(Propose(RuleCfg, snap, r).intent))
InitEntry == /\ BusParked /\ SimParked
             /\ rs = RiskState0 /\ clock = 32400 /\ enforce = FALSE /\ ret = NoCall
             /\ rcfg = RiskCfgDefault
             /\ LiveParked /\ IndParked /\ StratParked
NextEntry ==
    \/ Tick
    \/ (\E b \in EntryBids, a \in EntryAsks : OnBest("7203", Some(b), Some(a)))
          /\ UNCHANGED liveVars
    \/ (\E snap \in EntrySnaps, r \in {Nil, Some(0)} : PolicyIntent(snap, r))
          /\ UNCHANGED liveVars
    \/ (\E it \in Intents : OnIntent(it)) /\ UNCHANGED liveVars
SpecEntry == InitEntry /\ [][NextEntry]_vars

\* The LiveRouter alone, with a broker that may raise; it is fed the quotes of
\* the best events on the tick grid (it does not read the symbol).
InitLive == /\ BusParked /\ RiskParked /\ SimInit /\ bracket.trail_gap > 0
            /\ LiveInit /\ IndParked /\ StratParked
NextLive ==
    \/ Tick
    \/ \E ev \in {<<x[2], x[3]>> : x \in {y \in Bests : y[3] # Some(405)}},
          fail \in Fails, how \in {"post", "answer"} :
          LiveBest(ev[1], ev[2], fail, how)
    \/ \E it \in Intents, fail \in Fails, how \in {"post", "answer"} :
          LiveIntent(it, fail, how)
SpecLive == InitLive /\ [][NextLive]_vars

\* Positions without the identity of the Position object.
StripId(ps) == [i \in 1..Len(ps) |-> [ps[i] EXCEPT !.id = 0]]

\* The two ledgers have not differed so far; a run of the pair is followed up
\* to the first event after which they differ.
InStep ==
    /\ StripId(live.positions) = StripId(positions)
    /\ live.fills = fills
    /\ live.realized = realized

\* Simulator and LiveRouter subscribed to the same bus: each best and intent
\* event is handled by both; live trading is enabled, the token is ready and
\* no broker submission raises.
PairBest(sym, b, a) ==
    /\ InStep
    /\ OnBest(sym, b, a)
    /\ live' = LiveOnBest(live, b, a, 0, "post")

\* The simulator's handler runs first, the router's after it: five readings of
\* the clock in a row.
PairIntent(it) ==
    /\ InStep
    /\ live.nextId <= MaxIntents
    /\ \E w2 \in Later(clock) : \E w3 \in Later(w2) : \E w4 \in Later(w3) :
       \E w5 \in Later(w4) : \E w6 \in Later(w5) :
          /\ OnIntentWalls(it, MaxIntents, w2, w3, w6)
          /\ live' = LiveOnIntent(live, it, 0, "post", enforce, w4, w5, w6)

InitPair == BusParked /\ RiskParked /\ SimInit /\ LiveParked /\ IndParked /\ StratParked
NextPair ==
    \/ Tick
    \/ \E ev \in Bests : PairBest(ev[1], ev[2], ev[3])
    \/ \E it \in Intents : PairIntent(it)
SpecPair == InitPair /\ [][NextPair]_vars

\* The spoof detector alone, built with a suppress_weight: updates and gate
\* calls in any order.
InitSpoof == BusParked /\ RiskParked /\ SimParked /\ LiveParked /\ IndParked
                 /\ pol = StrategyPolicy0(FALSE, FALSE)
                 /\ gate \in {[SpoofDetector0(MaxBuf) EXCEPT !.suppress_weight = w] :
                                w \in Weights}
NextSpoof ==
    \/ \E fl \in Verdicts : SpoofUpdate(0, 400, 402, fl, Nil, Nil)
    \/ \E sd \in ProposedSides, c \in Confidences : SpoofApplyGate(sd, c)
SpecSpoof == InitSpoof /\ [][NextSpoof]_vars

\* The spoof detector fed snapshots over time and reconfigured between them.
BufferCaps == 0..MaxBuf
ConfigArgs == {[key |-> "enabled", val |-> b] : b \in BOOLEAN}
                  \cup {[key |-> "buffer_points", val |-> n] : n \in BufferCaps}
InitDetector == BusParked /\ RiskParked /\ SimParked /\ LiveParked /\ IndParked
                    /\ pol = StrategyPolicy0(FALSE, FALSE)
                    /\ gate \in {SpoofDetector0(cap) : cap \in BufferCaps}
\* The times the snapshots are stamped with: not before the newest one, or 0
\* once the newest is MaxTs (a clock set back).
NextDetector ==
    \/ \E ts \in {t \in 0..MaxTs : LastTs(gate) <= t \/ (t = 0 /\ LastTs(gate) = MaxTs)},
          fl \in Outcomes("flash", {"B"}, {7}), ly \in Outcomes("layer", {"S"}, {7}),
          pg \in Outcomes("ping", {"S"}, {10}) : SpoofUpdate(ts, 400, 402, fl, ly, pg)
    \/ \E kw \in ConfigArgs : SpoofUpdateConfig(kw)
    \/ SpoofApplyGate("B", 100)
SpecDetector == InitDetector /\ [][NextDetector]_vars

\* The policy with its loop threads and a controlling thread, next to a spoof
\* detector fed by the order-book pushes.
InitPolicy == BusParked /\ RiskParked /\ SimParked /\ LiveParked /\ IndParked
                  /\ PolInit /\ gate = SpoofDetector0(MaxBuf)
NextPolicy ==
    \/ PolStart
    \/ PolStopSetFlag
    \/ PolStopJoin
    \/ \E i \in 1..MaxThreads : PolLoopTest(i)
    \/ \E i \in 1..MaxThreads : PolIterate(i)
    \/ \E i \in 1..MaxThreads : PolSleep(i)
    \/ \E fl \in Outcomes("flash", {"B"}, {7}) : SpoofUpdate(0, 400, 402, fl, Nil, Nil)
SpecPolicy == InitPolicy /\ [][NextPolicy]_vars

\* The indicator engine fed by one thread: ref, best and tape events in any
\* order, with missing and malformed fields.
InitInd == BusParked /\ RiskParked /\ SimParked /\ LiveParked /\ StratParked /\ IndInit
NextInd ==
    \/ \E pc \in {Nil, Some(400), Bad} : IndFeedRef(pc)
    \/ \E bid \in IndBids, ask \in IndAsks, bq, aq \in IndQtys :
         \E ts \in IndTs(clock) : IndFeedBest(bid, bq, ask, aq, ts)
    \/ \E price \in IndPrices, size \in IndSizes :
         \E ts \in IndTs(clock) : IndFeedTradeLike(price, size, ts)
SpecInd == InitInd /\ [][NextInd]_vars

\* propose and evaluate called with every input of the sets above.
InitCalls == InitInd
NextCalls ==
    \/ \E enabled \in BOOLEAN, est \in GateProbs, tp, sl \in GateTicks :
         CallEvaluate(enabled, est, tp, sl)
    \/ \E cfg \in RuleCfgs, snap \in ProposeSnaps, r \in ProposeReturns :
         CallPropose(cfg, snap, r)
SpecCalls == InitCalls /\ [][NextCalls]_vars

\* The engine fed by the bus worker while the policy thread takes snapshots.
InitSnap == InitInd
NextSnap ==
    \/ \E ev \in BestEvents \cup TapeEvents : HandlerBegin(ev)
    \/ HandlerStep
    \/ SnapshotBegin
    \/ SnapshotRead
    \/ SnapshotEnd
SpecSnap == InitSnap /\ [][NextSnap]_vars


(***************************************************************************)
(* Properties of the EventBus, checked under SpecBus.                      *)
(***************************************************************************)
IsPrefix(a, b) == Len(a) <= Len(b) /\ \A i \in 1..Len(a) : a[i] = b[i]

\* The bus has been running throughout and the queue never overflowed.
Clean == ~stopped /\ evicted = 0 /\ lost = {}

\* No publish() is in progress, nothing is pending, the worker is idle.
Quiescent ==
    /\ q = <<>>
    /\ \A p \in Publishers : pub[p].pc = "idle"
    /\ \A w \in 1..MaxWorkers : wk[w].pc \in {"unborn", "check", "get", "dead"}

\* What a subscriber of topic t is to receive: the events put on the queue for
\* t, in put order.
TopicPayloads(t) ==
    LET sel == SelectSeq(accepted, LAMBDA it : it.topic = t)
    IN  [i \in 1..Len(sel) |-> Payload(t, sel[i].ev, sel[i].own, "topic")]

\* C1: while the bus runs and the queue has not overflowed, each handler of a
\* topic has been invoked with a prefix of the events published to the topic,
\* in publish order, and with all N of them, once each, when the worker has
\* drained the queue; h1, which raises on every call, stops neither the loop
\* nor h2.
C1_EachHandlerGetsAllInOrder ==
    Clean =>
        \A t \in {TopicOf(p) : p \in Publishers} :
            \A k \in 1..Len(subs[t]) :
                /\ IsPrefix(log[subs[t][k]], TopicPayloads(t))
                /\ Quiescent => log[subs[t][k]] = TopicPayloads(t)

\* Three events were published to "best": the first has been dispatched to
\* h1, which raised, and to h2, while the second and the third wait in the
\* queue together.
C1_Witness ==
    /\ Clean
    /\ Len(log["h1"]) = 1 /\ log["h2"] = log["h1"]
    /\ Len(q) = 2
    /\ q[1].topic = "best" /\ q[2].topic = "best"
    /\ log["h1"][1].id < q[1].ev /\ q[1].ev < q[2].ev

\* C2: at most one handler invocation is in progress and at most one dispatch
\* worker is alive, whatever start(), stop() and publish() calls were made.
C2_OneDispatchAtATime ==
    /\ Cardinality(InHandler) <= 1
    /\ Cardinality(LiveWorkers) <= 1

\* a worker spawned by a start() that followed a stop() whose join timed out is
\* running a handler
C2_Witness ==
    /\ joinTimedOut
    /\ th = 2
    /\ wk[2].pc = "in"

\* C3: every publish() that has returned has put its event on the queue, and
\* the queue never holds more than max_queue items.
C3_PublishAlwaysEnqueues ==
    /\ lost = {}
    /\ Len(q) <= MaxQueue

(***************************************************************************)
(* Properties of the Simulator, checked under SpecSim.                     *)
(***************************************************************************)
QuotesKnown == best_bid # Nil /\ best_ask # Nil
AfterQuoteUpdate == last.op \in {"best", "tape"}

\* C4: once a position's trailing-stop price is set, no step loosens it: for a
\* BUY it never decreases, for a SELL it never increases.
C4_TrailingStopOnlyTightens ==
    [][\A i \in 1..Len(positions), j \in 1..Len(positions') :
          (positions[i].id = positions'[j].id /\ positions[i].trail_stop_px # Nil) =>
              /\ positions'[j].trail_stop_px # Nil
              /\ positions[i].side = "BUY" =>
                     Get(positions'[j].trail_stop_px) >= Get(positions[i].trail_stop_px)
              /\ positions[i].side = "SELL" =>
                     Get(positions'[j].trail_stop_px) <= Get(positions[i].trail_stop_px)]_vars

\* The exit-side price of the specification: the best bid closes a long, the
\* best ask closes a short.
ExitSidePx(side) == IF side = "BUY" THEN Get(best_bid) ELSE Get(best_ask)

\* C5: every exit fill of a quote update is priced, before slippage, at the
\* exit-side price: the best bid for a BUY position, the best ask for a SELL
\* position.
C5_ExitFillAtExitSidePrice ==
    AfterQuoteUpdate =>
        \A k \in 1..Len(audit) : audit[k].mkt = ExitSidePx(audit[k].pos.side)

\* C6: a fill closes the position whose exit condition produced it, and no
\* position gets two fills.
C6_OneFillClosesItsPosition ==
    /\ \A k \in 1..Len(audit) : audit[k].popped = audit[k].pos.id
    /\ \A k, m \in 1..Len(audit) : audit[k].pos.id = audit[m].pos.id => k = m

TpHit(pos, mkt) == (mkt - pos.entry_px) * Mult(pos.side) >= pos.tp_ticks * SimCfg.tick_size
SlHit(pos, mkt) == (mkt - pos.entry_px) * Mult(pos.side) <= (-pos.sl_ticks) * SimCfg.tick_size

\* C7: the kind of every exit fill is the first of TAKE-PROFIT (pnl_ticks >=
\* tp_ticks), STOP-LOSS (pnl_ticks <= -sl_ticks), TRAILING (stop breached) that
\* holds, and a position for which none holds after a quote update gets no
\* fill and stays open.
C7_ExitPriority ==
    /\ \A k \in 1..Len(audit) :
          LET a == audit[k] IN
          /\ TpHit(a.pos, a.mkt) => a.kind = "EXIT_TP"
          /\ (~TpHit(a.pos, a.mkt) /\ SlHit(a.pos, a.mkt)) => a.kind = "EXIT_SL"
          /\ (~TpHit(a.pos, a.mkt) /\ ~SlHit(a.pos, a.mkt)) =>
                (a.kind = "EXIT_TRAIL" /\ TrailBreached(a.pos, a.mkt))
    /\ (AfterQuoteUpdate /\ QuotesKnown) =>
          \A i \in 1..Len(positions) :
              LET p == positions[i]
                  mkt == MktPx(p.side, Get(best_bid), Get(best_ask))
              IN  ~TpHit(p, mkt) /\ ~SlHit(p, mkt) /\ ~TrailBreached(p, mkt)

\* a TAKE-PROFIT fill of a position whose trailing stop was breached on the same
\* quote update
C7_Witness ==
    \E k \in 1..Len(audit) :
        /\ TpHit(audit[k].pos, audit[k].mkt)
        /\ TrailBreached(audit[k].pos, audit[k].mkt)
        /\ audit[k].kind = "EXIT_TP"

\* C8: a quote update that takes the exit-side price of an armed position
\* (trailing on, gap > 0) to or beyond its trailing-stop price, with pnl_ticks
\* strictly between -sl_ticks and tp_ticks, closes it with a trailing exit.
\* (Both quotes are taken beyond the stop, so the statement does not depend on
\* which of them is the exit-side price.)
C8_RetraceToStopExits ==
    [][(last'.op \in {"best", "tape"} /\ best_bid' # Nil /\ best_ask' # Nil) =>
        \A i \in 1..Len(positions) :
            LET p == positions[i]
                b == Get(best_bid')
                a == Get(best_ask')
            IN  ( /\ p.trail /\ p.trail_gap > 0 /\ p.trail_stop_px # Nil
                  /\ ~TpHit(p, b) /\ ~TpHit(p, a) /\ ~SlHit(p, b) /\ ~SlHit(p, a)
                  /\ \/ p.side = "BUY" /\ a <= Get(p.trail_stop_px)
                     \/ p.side = "SELL" /\ b >= Get(p.trail_stop_px) )
                => \E k \in 1..Len(audit') :
                       audit'[k].pos.id = p.id /\ audit'[k].kind = "EXIT_TRAIL"]_vars

(***************************************************************************)
(* Properties of the RiskManager, checked under SpecRisk.                  *)
(***************************************************************************)
\* C9: can_enter(qty) returns false whenever open_qty + qty > max_pos_qty.
C9_OverCapIsRejected ==
    ret.called =>
        (ret.before.open_qty + ret.qty > RiskCfg.max_pos_qty => ~ret.res.ok)

\* a positive quantity that alone would pass but exceeds the cap with the open
\* quantity, rejected for the position limit
C9_Witness ==
    /\ ret.called
    /\ ret.qty > 0 /\ ret.qty <= RiskCfg.max_pos_qty
    /\ ret.before.open_qty > 0
    /\ ret.before.open_qty + ret.qty > RiskCfg.max_pos_qty
    /\ ret.res = [ok |-> FALSE, reason |-> "pos_limit"]

\* The `now` of the claim: the now_ts argument when one is passed, else the
\* wall clock.
ClaimedNow(r) == IF r.now_ts = Nil THEN r.wall ELSE Get(r.now_ts)
\* The same for the cooldown test: without an argument, the time the call
\* read the clock for it.
ClaimedNowCooldown(r) == IF r.now_ts = Nil THEN r.wall2 ELSE Get(r.now_ts)

ClaimedMarketOpen(r) ==
    ~enforce \/ ( /\ TmWday(ClaimedNow(r)) < 5
                  /\ \/ (900 <= TmHm(ClaimedNow(r)) /\ TmHm(ClaimedNow(r)) < 1130)
                     \/ (1230 <= TmHm(ClaimedNow(r)) /\ TmHm(ClaimedNow(r)) < 1500) )

ClaimedResult(r) ==
    IF ~ClaimedMarketOpen(r) THEN [ok |-> FALSE, reason |-> "market_closed"]
    ELSE IF r.qty <= 0 THEN [ok |-> FALSE, reason |-> "qty<=0"]
    ELSE IF r.before.open_qty + r.qty > RiskCfg.max_pos_qty
         THEN [ok |-> FALSE, reason |-> "pos_limit"]
    ELSE IF r.before.consec_losses >= RiskCfg.max_consec_losses
         THEN [ok |-> FALSE, reason |-> "too_many_losses"]
    ELSE IF ClaimedNowCooldown(r) - r.before.last_entry_ts < RiskCfg.cooldown_sec
         THEN [ok |-> FALSE, reason |-> "cooldown"]
    ELSE [ok |-> TRUE, reason |-> "ok"]

\* C10: can_enter(qty, now) returns (true, ok) exactly when every check passes
\* at the time now, else false with the reason of the first failing check in
\* the order market_closed, qty<=0, pos_limit, too_many_losses, cooldown, and
\* it leaves the RiskState as it was.
C10_CanEnterResultAndReason ==
    ret.called => (ret.res = ClaimedResult(ret) /\ rs = ret.before)

\* The RiskState after on_exit_filled as C11 words it: open quantity less qty.
ClaimedAfterExit(r) ==
    [r.before EXCEPT !.open_qty = @ - r.qty,
                     !.day_pnl_num = @ + r.pnl_num,
                     !.consec_losses = IF r.pnl_num < 0 THEN @ + 1 ELSE 0]

\* C11 as stated: after on_entry_filled(qty) the open quantity is qty more and
\* the last-entry time is the wall clock; after on_exit_filled(qty, pnl_ticks)
\* the open quantity is qty less, the daily P&L is pnl_ticks more and the loss
\* counter is one more for a loss and zero otherwise; can_enter, can_exit and
\* state_snapshot leave the RiskState as it was; nothing else has changed.
C11_RiskStateFrame ==
    /\ Op(ret) = "on_entry_filled" =>
          rs = [ret.before EXCEPT !.open_qty = @ + ret.qty, !.last_entry_ts = ret.wall]
    /\ Op(ret) = "on_exit_filled" => rs = ClaimedAfterExit(ret)
    /\ Op(ret) \in {"can_enter", "can_exit", "state_snapshot"} => rs = ret.before
    /\ Op(ret) = "none" => rs = RiskState0

\* C11 amended: as C11, with the open quantity after on_exit_filled(qty) being
\* max(0, open quantity - qty): an exit larger than the open quantity leaves 0.
C11_RiskStateFrameFloored ==
    /\ Op(ret) = "on_entry_filled" =>
          rs = [ret.before EXCEPT !.open_qty = @ + ret.qty, !.last_entry_ts = ret.wall]
    /\ Op(ret) = "on_exit_filled" =>
          rs = [ClaimedAfterExit(ret) EXCEPT
                   !.open_qty = IF ret.before.open_qty >= ret.qty
                                THEN ret.before.open_qty - ret.qty ELSE 0]
    /\ Op(ret) \in {"can_enter", "can_exit", "state_snapshot"} => rs = ret.before
    /\ Op(ret) = "none" => rs = RiskState0

\* a losing exit larger than the open quantity, after an earlier loss
C11_Witness ==
    /\ Op(ret) = "on_exit_filled"
    /\ ret.qty > ret.before.open_qty /\ ret.before.open_qty > 0
    /\ ret.pnl_num < 0 /\ ret.before.consec_losses > 0
    /\ rs.open_qty = 0 /\ rs.consec_losses = ret.before.consec_losses + 1

(***************************************************************************)
(* Risk and exits in the Simulator, checked under SpecSim.                 *)
(***************************************************************************)
\* can_enter(1) would be rejected now for the position cap, the loss streak or
\* the cooldown.
EntriesRejected == CanEnter(enforce, rs, 1, Nil, clock, clock).reason
                       \in {"pos_limit", "too_many_losses", "cooldown"}

\* C12: can_exit() is true, and while can_enter is rejecting entries no
\* position is left open by a quote update on which its take-profit or
\* stop-loss condition holds at its exit-side price (best bid for a BUY, best
\* ask for a SELL).
C12_ExitNeverBlocked ==
    /\ CanExit.ok
    /\ (AfterQuoteUpdate /\ QuotesKnown /\ EntriesRejected) =>
          \A i \in 1..Len(positions) :
              /\ ~TpHit(positions[i], ExitSidePx(positions[i].side))
              /\ ~SlHit(positions[i], ExitSidePx(positions[i].side))

\* The same at the price _evaluate_exits marks the position at: while
\* can_enter is rejecting entries, no position is left open by a quote update
\* on which one of the three exit tests of the code holds.
C12_ExitNeverBlockedAtMarkPrice ==
    (AfterQuoteUpdate /\ QuotesKnown /\ EntriesRejected) =>
        \A i \in 1..Len(positions) :
            LET p == positions[i]
                mkt == MktPx(p.side, Get(best_bid), Get(best_ask))
            IN  ~TpHit(p, mkt) /\ ~SlHit(p, mkt) /\ ~TrailBreached(p, mkt)

\* an exit fill on a quote update after which entries are rejected
C12_MarkPriceWitness ==
    /\ AfterQuoteUpdate /\ EntriesRejected
    /\ Len(audit) > 0 /\ Len(positions) > 0

\* The sum, over the fills a handler recorded, of the signed delta of each
\* fill against the position whose exit condition generated it (numerator over
\* tick_size).
RECURSIVE SumGeneratingDeltas(_)
SumGeneratingDeltas(au) ==
    IF au = <<>> THEN 0
    ELSE (Head(au).price - Head(au).pos.entry_px) * Mult(Head(au).pos.side)
         + SumGeneratingDeltas(Tail(au))

\* C13: every step that records fills adds to realized_pnl_ticks the sum of
\* their signed deltas, each against the entry price and side of the position
\* whose exit condition generated the fill; no step changes the realized P&L
\* otherwise; fills are only appended.
C13_RealizedIsSumOfFillDeltas ==
    [][/\ IsPrefix(fills, fills')
       /\ fills' = fills => realized' = realized
       /\ fills' # fills =>
             /\ Len(fills') = Len(fills) + Len(audit')
             /\ realized' = realized + SumGeneratingDeltas(audit')]_vars

\* Entry resolution as C14 words it, on the quotes before the intent: whether
\* a position opens, and at which price where the claim names one (Nil: not
\* named).
ClaimedEntry(it) ==
    IF it.entry_type = "LIMIT" /\ it.price = Nil
    THEN LET quote == IF it.side = "BUY" THEN best_bid ELSE best_ask
         IN  [opens |-> quote # Nil, px |-> quote]
    ELSE IF it.entry_type = "LIMIT"
    THEN [opens |-> IF it.side = "BUY"
                    THEN best_ask # Nil /\ Get(it.price) >= Get(best_ask)
                    ELSE best_bid # Nil /\ Get(it.price) <= Get(best_bid),
          px |-> Nil]
    ELSE LET quote == IF it.side = "BUY" THEN best_ask ELSE best_bid
         IN  [opens |-> quote # Nil, px |-> quote]

\* C14: an intent the Risk Manager admits opens a position exactly when the
\* claimed resolution says so (LIMIT without price: same-side best quote;
\* explicit LIMIT: only when crossed by the opposite best quote; MARKET:
\* opposite best quote; needed quote unknown: nothing), with the intent's side
\* and quantity and at the named price; otherwise the positions are unchanged.
C14_EntryResolution ==
    [][last'.op = "intent" => \A it \in Intents : \A wall2 \in Later(clock) :
          (/\ CanEnter(enforce, rs, it.qty, Nil, clock, wall2).ok
           /\ OnIntentWalls(it, MaxIntents, wall2, clock', clock')) =>
              IF ClaimedEntry(it).opens
              THEN /\ Len(positions') = Len(positions) + 1
                   /\ \A i \in 1..Len(positions) : positions'[i] = positions[i]
                   /\ LET p == positions'[Len(positions')]
                      IN  /\ p.side = it.side /\ p.qty = it.qty
                          /\ ClaimedEntry(it).px # Nil => p.entry_px = Get(ClaimedEntry(it).px)
              ELSE positions' = positions]_vars

\* an admitted explicit-limit intent that was not crossed and opened nothing,
\* with both quotes known
C14_Witness ==
    /\ last.op = "intent" /\ last.res = "px"
    /\ QuotesKnown

(***************************************************************************)
(* Properties of the LiveRouter, checked under SpecLive.                   *)
(***************************************************************************)
\* Positions without their trailing bookkeeping (peak_ticks, trail_stop_px).
StripTrail(ps) ==
    [i \in 1..Len(ps) |-> [ps[i] EXCEPT !.peak_ticks = 0, !.trail_stop_px = Nil]]

\* The handler published no exec.position and no exec.fill event.
NoExecEvent(lv) ==
    \A k \in 1..Len(lv.emitted) : lv.emitted[k].topic \notin {"exec.position", "exec.fill"}

\* Fills, realized P&L and RiskState are the same in lv and lw.
SameBooks(lv, lw) ==
    lw.fills = lv.fills /\ lw.realized = lv.realized /\ lw.rs = lv.rs

\* C15 as stated: a handler whose broker submission raised (the entry
\* submission, or the first exit submission of a quote update) leaves
\* Ledger.positions, Ledger.fills, the realized P&L and the RiskState exactly
\* as they were before the event and publishes no exec.position / exec.fill.
C15_FailedSubmissionAborts ==
    [][(live'.raised \in {"entry", "exit"} /\ live'.sent = 1) =>
          /\ live'.positions = live.positions
          /\ SameBooks(live, live')
          /\ NoExecEvent(live')]_vars

\* C15 amended: as C15, except that after a failed exit submission the
\* positions are the same ones with the same entry data while their trailing
\* bookkeeping (peak_ticks, trail_stop_px) may already be updated; and when an
\* exit submission fails after earlier ones of the same quote update
\* succeeded, exactly those earlier legs are booked and the failing position
\* is still open.
C15_FailedSubmissionAbortsLeg ==
    [][/\ (live'.raised = "entry") =>
             /\ live'.positions = live.positions
             /\ SameBooks(live, live')
             /\ NoExecEvent(live')
       /\ (live'.raised = "exit" /\ live'.sent = 1) =>
             /\ StripTrail(live'.positions) = StripTrail(live.positions)
             /\ SameBooks(live, live')
             /\ NoExecEvent(live')
       /\ (live'.raised = "exit" /\ live' # live) =>
             /\ Len(live'.fills) = Len(live.fills) + live'.sent - 1
             /\ Len(live'.positions) = Len(live.positions) - (live'.sent - 1)
             /\ Len(live'.audit) = live'.sent - 1
             /\ \E i \in 1..Len(live'.positions) :
                    live'.positions[i].id = live'.raisedPos]_vars

\* the second exit submission of a quote update raised after the first was
\* booked, for a position whose trailing stop the same evaluation has set
C15_Witness ==
    /\ live.raised = "exit" /\ live.sent = 2
    /\ Len(live.audit) = 1
    /\ \E i \in 1..Len(live.positions) :
          /\ live.positions[i].id = live.raisedPos
          /\ live.positions[i].trail_stop_px # Nil
          /\ live.positions[i].peak_ticks >= live.positions[i].tp_ticks

(***************************************************************************)
(* Simulator against LiveRouter, checked under SpecPair.                   *)
(***************************************************************************)
\* C16: fed the same intent and best events, with live trading enabled, every
\* submission succeeding and zero slippage, the Simulator and the LiveRouter
\* hold equal ledgers after every event: the same open positions (entry
\* prices, bracket and trailing state), the same fills, the same realized P&L.
C16_LedgersEqual ==
    /\ Len(live.positions) = Len(positions)
    /\ \A i \in 1..Len(positions) :
          [live.positions[i] EXCEPT !.id = 0] = [positions[i] EXCEPT !.id = 0]
    /\ live.fills = fills
    /\ live.realized = realized

(***************************************************************************)
(* Properties of the StrategyPolicy, checked under SpecPolicy.             *)
(***************************************************************************)
\* The iteration record l published an intent on strategy.intent.
PublishedIntent(l) ==
    l.th # 0 /\ \E k \in 1..Len(l.pub) : l.pub[k].topic = "strategy.intent"

\* The side a proposal is put to the spoof gate with: 'B' for BUY, else 'S'.
SpoofSide(side) == IF side = "BUY" THEN "B" ELSE "S"

\* Thread i has just run the try block of an iteration.
IterationDone(i) ==
    /\ PolAlive(pol, i) /\ pol.threads[i].pc = "body"
    /\ pol'.last # pol.last /\ pol'.last.th = i

\* C17: an iteration publishes an intent on strategy.intent only if in that
\* iteration the rule strategy proposed it, the spoof gate allowed it for its
\* side under the detector's verdict of that moment, and the ML gate accepted
\* it; a proposal the spoof gate vetoes is never published.
C17_IntentPassedEveryGate ==
    [][\A i \in 1..MaxThreads :
          (IterationDone(i) /\ PublishedIntent(pol'.last))
              => /\ pol'.last.intent # Nil
                 /\ pol'.last.go
                 /\ ApplyGate(gate, SpoofSide(Get(pol'.last.intent).side), 100).allow
      ]_vars

\* C18: when a stage of an iteration raises, the iteration publishes no
\* intent (only the error on the debug topic), the loop thread stays alive
\* and goes to the sleep without running the body again; the sleep lasts
\* max(0, interval - dt), and the loop test after it begins the next iteration
\* unless stop() was called.
C18_RaisingIterationIsSkipped ==
    [][\A i \in 1..MaxThreads :
          /\ (IterationDone(i) /\ pol'.last.raised # None)
                => /\ ~PublishedIntent(pol'.last)
                   /\ pol'.last.pub = <<PubDebug("error")>>
                   /\ PolAlive(pol', i)
                   /\ pol'.threads[i].pc = "sleep"
          /\ (/\ PolAlive(pol, i) /\ pol.threads[i].pc = "sleep"
              /\ pol.last.th = i /\ pol.last.raised # None
              /\ pol'.threads[i] # pol.threads[i])
                => /\ PolAlive(pol', i)
                   /\ pol'.threads[i].pc = "while"
                   /\ pol'.slept = Max0(LoopInterval - pol.last.dt)
                   /\ pol'.last = pol.last
          /\ (/\ PolAlive(pol, i) /\ pol.threads[i].pc = "while"
              /\ pol.last.th = i /\ pol.last.raised # None
              /\ ~pol.stop
              /\ pol'.threads[i] # pol.threads[i])
                => PolAlive(pol', i) /\ pol'.threads[i].pc = "body"
      ]_vars

\* An iteration raised, the loop thread slept the rest of the interval and is
\* back at the loop test.
C18_Witness ==
    /\ pol.last.th # 0
    /\ pol.last.raised = "propose"
    /\ PolAlive(pol, pol.last.th)
    /\ pol.threads[pol.last.th].pc = "while"
    /\ pol.last.dt = 1 /\ pol.slept = 1

\* The loop threads that are alive, and those inside an iteration.
LoopThreads == {i \in 1..Len(pol.threads) : pol.threads[i].alive}
Iterating == {i \in LoopThreads : pol.threads[i].pc \in {"body", "sleep"}}

\* C19: whatever start() and stop() calls were made, at most one loop thread
\* is alive, so at most one iteration is in progress at a time.
C19_IterationsNeverOverlap ==
    /\ Cardinality(LoopThreads) <= 1
    /\ Cardinality(Iterating) <= 1

\* The policy was stopped and started again: the first loop thread has
\* exited and the second is inside an iteration.
C19_Witness ==
    /\ Len(pol.threads) = 2
    /\ ~pol.threads[1].alive
    /\ pol.threads[2].alive /\ pol.threads[2].pc = "body"

(***************************************************************************)
(* Properties of the SpoofDetector, checked under SpecSpoof.               *)
(***************************************************************************)
\* The last verdict vetoes the side: it exists, its score reaches the
\* threshold and its side is the proposed one.
HardVeto(s, proposed_side) ==
    /\ s # Nil
    /\ Get(s).score >= SpoofCfg.score_threshold
    /\ Get(s).side = proposed_side

\* C20: apply_gate returns allow = false iff a last verdict exists with
\* score >= score_threshold and side = proposed_side; otherwise allow = true
\* with an adjusted confidence <= the original; with no verdict the confidence
\* is returned unchanged.  For confidences in 0.0 .. 1.0 and a detector built
\* with a suppress_weight >= 0.
C20_GateVetoOrPenalty ==
    gate.call.called =>
        LET c == gate.call
        IN  /\ ~c.res.allow <=> HardVeto(gate.last, c.side)
            /\ c.res.allow => c.res.adj <= c.conf
            /\ gate.last = Nil => c.res.adj = c.conf

\* A verdict at the threshold for the other side: the gate allows the entry
\* and lowers its confidence.
C20_Witness ==
    /\ gate.call.called
    /\ gate.last # Nil
    /\ Get(gate.last).score >= SpoofCfg.score_threshold
    /\ gate.call.res.allow
    /\ gate.call.res.adj < gate.call.conf

(***************************************************************************)
(* Properties of the SpoofDetector's buffer and verdict, checked under     *)
(* SpecDetector.                                                           *)
(***************************************************************************)
\* a is what is left of b after dropping items from its front.
IsSuffixOf(a, b) ==
    /\ Len(a) <= Len(b)
    /\ \A i \in 1..Len(a) : a[i] = b[Len(b) - Len(a) + i]

\* C21: after every update() and update_config() call the buffer holds at
\* most buffer_points snapshots, and what a call removed was taken from the
\* old end: the buffer is a suffix of the old buffer, or of the old buffer
\* with the new snapshot appended.
C21_BufferWithinCapacity ==
    [][/\ Len(gate'.buf) <= gate'.buffer_points
       /\ \/ IsSuffixOf(gate'.buf, gate.buf)
          \/ /\ gate'.buf # <<>>
             /\ gate'.upd.op = "update"
             /\ IsSuffixOf(gate'.buf, Append(gate.buf, gate'.buf[Len(gate'.buf)]))
      ]_vars

\* update_config lowered buffer_points to 1 after snapshots of two different
\* times were buffered: only the newer one is left.
C21_Witness ==
    /\ gate.upd.op = "update_config"
    /\ gate.buffer_points = 1
    /\ Len(gate.buf) = 1
    /\ Len(gate.steps) = 4
    /\ gate.steps[1].t < gate.steps[3].t
    /\ gate.buf[1].t = gate.steps[3].t

\* C22: after an update() call the verdict apply_gate consults is the
\* highest-scoring verdict the classifiers produced in that call, or no
\* verdict if none fired, whatever the enabled setting at that call.
C22_VerdictIsOfLastUpdate ==
    gate.upd.op = "update" => gate.last = Best(gate.upd.produced)

\* C23: imbalance() is None or a value in [-1, 1], and it is None exactly
\* when a quantity is missing or bid_qty + ask_qty is not positive.
C23_ImbalanceWithinUnit ==
    LET im == Imbalance(ind)
    IN  /\ im # Nil => /\ -Get(im).den <= Get(im).num
                       /\ Get(im).num <= Get(im).den
        /\ im = Nil <=> \/ ind.bid_qty = Nil
                        \/ ind.ask_qty = Nil
                        \/ Get(ind.bid_qty) + Get(ind.ask_qty) <= 0

\* The trades of a tape that count for the VWAP, and their sums.
PositiveTrades(tape) == SelectSeq(tape, LAMBDA x : x.size > 0)
RECURSIVE Turnover(_)
Turnover(tape) ==
    IF tape = <<>> THEN 0 ELSE Head(tape).price * Head(tape).size + Turnover(Tail(tape))
RECURSIVE Volume(_)
Volume(tape) == IF tape = <<>> THEN 0 ELSE Head(tape).size + Volume(Tail(tape))

\* C24: the VWAP is a function of the trades of positive size fed so far: it
\* is undefined while their volume is zero and otherwise equals the sum of
\* price x size over the sum of size; trades of size 0 or less do not enter.
C24_VwapOfPositiveTrades ==
    LET pt == PositiveTrades(ind.tape)
    IN  IF Volume(pt) = 0 THEN ind.vwap = Nil
        ELSE /\ ind.vwap # Nil
             /\ Get(ind.vwap).num * Volume(pt) = Turnover(pt) * Get(ind.vwap).den

\* A trade of positive size was followed by one of size 0 or less at another
\* price, and the VWAP is that of the first.
C24_Witness ==
    /\ Len(ind.tape) = 2
    /\ ind.tape[1].size > 0
    /\ ind.tape[2].size <= 0
    /\ ind.tape[2].price # ind.tape[1].price
    /\ ind.op = "tape" /\ ind.raised = None
    /\ ind.vwap = Some([num |-> ind.tape[1].price * ind.tape[1].size,
                        den |-> ind.tape[1].size])

\* C25: a feed call with a field that is not a number, or a tape event
\* without price, does not raise.
C25_MalformedFieldNeverRaises ==
    ind.malformed => ind.raised = None

\* C28: the MarketSnapshot that snapshot() returns to the policy thread is
\* what snapshot() yields on the engine as it stood between two dispatches of
\* the bus worker, never on an engine with a best or tape event partly
\* applied.
C28_SnapshotIsPointInTime ==
    rd.pc = "done" => Get(rd.snap) \in feed.views

\* The expected value of an intent at probability p (hundredths) with
\* take-profit tp and stop-loss sl, in hundredths of a tick, as the exact
\* number p x TP - (1 - p) x SL - cost_ticks.
ExpectedValue(p, tp, sl) == p * tp - (100 - p) * sl - MLCfg.cost

\* C26: an enabled gate returns go = (p >= min_prob) and
\* (EV >= min_ev_ticks) with EV = p x TP - (1 - p) x SL - cost_ticks, TP and
\* SL being the intent's tp_ticks and sl_ticks; a disabled gate returns
\* go = true, p = 0.5, EV = 0.
C26_GateDecision ==
    fn.op = "evaluate" =>
        /\ ~fn.out.raised
        /\ IF fn.enabled
           THEN fn.out.go <=>
                  /\ fn.out.prob >= MLCfg.min_prob
                  /\ ExpectedValue(fn.out.prob, fn.intent.tp_ticks, fn.intent.sl_ticks)
                        >= MLCfg.min_ev * 100
           ELSE fn.out.go /\ fn.out.prob = 50 /\ fn.out.ev = DZero

\* The recent return r (a price difference) has run more than 0.8 x
\* recent_return_abs_max ticks in the entry direction.
RanInEntryDirection(cfg, r, side) ==
    LET lim == cfg.recent_return_abs_max * cfg.tick_size * 8    \* x 100
    IN  IF side = "BUY" THEN r * 100 > lim ELSE r * 100 < -lim

\* |r| is more than recent_return_abs_max ticks, in either direction.
Extreme(cfg, r) == Abs(r) * 10 > cfg.recent_return_abs_max * cfg.tick_size

\* x is on the entry side of y: at or above it for a BUY, at or below it for
\* a SELL.
Aligned(side, x, y) == IF side = "BUY" THEN Get(x) >= Get(y) ELSE Get(x) <= Get(y)

\* Every technical filter that is enabled and has its data agrees with the
\* side: price against VWAP and SMA25, MACD against its signal, RSI no higher
\* than 70 for a BUY and no lower than 30 for a SELL.
TechnicalsAligned(c, side) ==
    /\ (c.cfg.use_vwap_filter /\ c.snap.vwap # Nil /\ c.snap.last_price # Nil)
          => Aligned(side, c.snap.last_price, c.snap.vwap)
    /\ (c.cfg.use_sma25_filter /\ c.snap.sma25 # Nil /\ c.snap.last_price # Nil)
          => Aligned(side, c.snap.last_price, c.snap.sma25)
    /\ (c.cfg.use_macd_filter /\ c.snap.macd # Nil /\ c.snap.macd_sig # Nil)
          => Aligned(side, c.snap.macd, c.snap.macd_sig)
    /\ (c.cfg.use_rsi_filter /\ c.snap.rsi14 # Nil)
          => IF side = "BUY" THEN Get(c.snap.rsi14) <= 70 ELSE Get(c.snap.rsi14) >= 30

\* The admission checks of propose on the arguments of a call; bothWays says
\* whether an extreme recent return rejects whatever its direction.
Admitted(c, bothWays) ==
    /\ c.snap.best_bid # Nil /\ c.snap.best_ask # Nil
    /\ c.snap.spread # Nil
    /\ Get(c.snap.spread) <= c.cfg.spread_ticks_max * c.cfg.tick_size
    /\ Get(c.snap.pushes_per_min) >= c.cfg.pushes_per_min_min
    /\ c.snap.imbalance # Nil
    /\ Abs(Get(c.snap.imbalance)) >= c.cfg.imbalance_th
    /\ LET side == IF Get(c.snap.imbalance) > 0 THEN "BUY" ELSE "SELL"
       IN  /\ c.r # Nil => /\ ~RanInEntryDirection(c.cfg, Get(c.r), side)
                            /\ ~(bothWays /\ Extreme(c.cfg, Get(c.r)))
           /\ TechnicalsAligned(c, side)

\* What the call returned and left behind: an intent of the imbalance's side
\* exactly when admitted, and snapshot, features and configuration as they
\* were given.
ProposeAnswers(c, bothWays) ==
    /\ ~c.out.raised
    /\ c.out.intent # Nil <=> Admitted(c, bothWays)
    /\ c.out.intent # Nil =>
         Get(c.out.intent).side = IF Get(c.snap.imbalance) > 0 THEN "BUY" ELSE "SELL"
    /\ c.out.snap = c.snap /\ c.out.features = c.r /\ c.out.cfg = c.cfg

Called(h, x) == \E i \in DOMAIN log[h] : log[h][i] = x

\* The item has been dispatched: every handler of its topic and every
\* wildcard handler has been called with it.
Dispatched(it) ==
    \A phase \in {"topic", "wild"} :
        \A k \in DOMAIN HandlersOf(it.topic, phase) :
            Called(HandlersOf(it.topic, phase)[k], Payload(it.topic, it.ev, it.own, phase))

\* C29: when stop() has returned before its join timeout expired, every event
\* that was in the queue when stop() was called has been dispatched to its
\* handlers.
C29_StopDrainsPending ==
    [][(ctl = "stop_join" /\ ctl' = "idle" /\ ~joinTimedOut')
          => \A it \in pendingAtStop : Dispatched(it)]_vars

\* C30: each wildcard handler is called at most once with an event, and
\* every call carries the topic the event was published to.
C30_WildcardOnceWithOrigin ==
    \A k \in DOMAIN subs["*"] :
        LET calls == log[subs["*"][k]]
        IN  /\ \A i, j \in DOMAIN calls : calls[i].id = calls[j].id => i = j
            /\ \A i \in DOMAIN calls :
                 \E n \in DOMAIN accepted :
                     /\ accepted[n].ev = calls[i].id
                     /\ accepted[n].topic = calls[i].tag

\* The exit test of _evaluate_exits holds for position p at the quotes bid
\* and ask: after the trailing update, one of the three exit kinds applies.
ExitDue(p, bid, ask) ==
    LET mkt == MktPx(p.side, bid, ask)
        pnl_num == (mkt - p.entry_px) * Mult(p.side)
        tu == TrailUpdate(p, mkt, pnl_num, SimCfg.tick_size)
    IN  ExitKind([p EXCEPT !.peak_ticks = tu.peak, !.trail_stop_px = tu.stop],
                 mkt, pnl_num, SimCfg.tick_size) # None

\* The ids of the positions of a list.
IdsOf(ps) == {ps[i].id : i \in DOMAIN ps}

\* C31: on a quote update with several positions open of which exactly one,
\* P, meets its exit condition, P is the position removed, the others stay,
\* one fill is emitted, its pnl is computed from P's entry price and side,
\* and the Risk Manager's open quantity goes down by P's quantity.
C31_ExitRemovesItsOwnPosition ==
    [][\A i \in DOMAIN positions :
          (/\ last'.op \in {"best", "tape"}
           /\ best_bid' # Nil /\ best_ask' # Nil
           /\ Len(positions) >= 2
           /\ \A j \in DOMAIN positions :
                 ExitDue(positions[j], Get(best_bid'), Get(best_ask')) <=> j = i)
          => /\ IdsOf(positions') = IdsOf(positions) \ {positions[i].id}
             /\ Len(audit') = 1
             /\ Len(fills') = Len(fills) + 1
             /\ audit'[1].popped = positions[i].id
             /\ audit'[1].pnl = (audit'[1].price - positions[i].entry_px)
                                   * Mult(positions[i].side)
             /\ rs'.open_qty = Max0(rs.open_qty - positions[i].qty)
      ]_vars

\* C32: every update() call in which the walk-away classifier is evaluated
\* (the detector is enabled and at least six steps are recorded) returns
\* normally: a walk-away verdict is built for a side only from at least
\* walk_steps_need outward steps inside the walk window, on the bid side as
\* on the ask side, and building it does not raise.
C32_WalkEvaluatedReturns ==
    (gate.upd.op = "update" /\ gate.upd.ran /\ Len(gate.steps) >= 6)
        => gate.upd.raised = None

\* The sum of the quantities of the positions of a list.
RECURSIVE SumQty(_)
SumQty(ps) == IF ps = <<>> THEN 0 ELSE Head(ps).qty + SumQty(Tail(ps))

\* C33: after any sequence of intent, best and tape events, of differing
\* quantities and sides, the Risk Manager's open quantity equals the sum of
\* the quantities of the positions in the ledger.
C33_OpenQtyIsSumOfPositions == rs.open_qty = SumQty(positions)

\* C34: in the Simulator with its own Risk Manager the quantities of the
\* open positions never add up to more than max_pos_qty, and a position is
\* created only by an intent that can_enter admitted.
C34_PositionsWithinCap ==
    [][/\ SumQty(positions') <= rcfg.max_pos_qty
       /\ Len(positions') > Len(positions) =>
             /\ last'.op = "intent"
             /\ \E wall2 \in Later(clock) :
                    CanEnter(enforce, rs, positions'[Len(positions')].qty, Nil, clock, wall2).ok
      ]_vars

\* C35: the bus can be restarted: the worker that a start() after a completed
\* stop() created goes on taking events from the queue until stop() is called
\* again, whatever the earlier stop() left in the queue; it has ended only
\* when the stop flag is set.
C35_RestartedWorkerServes ==
    (th # 0 /\ wk[th].pc = "dead") => stopFlag

\* The loss streak has reached max_consec_losses and the ledger is flat.
LockedOutFlat == rs.consec_losses >= rcfg.max_consec_losses /\ positions = <<>>

\* C36: the loss-streak lockout is absorbing while flat: from a state with
\* consec_losses at max_consec_losses and no position open, every step leaves
\* the counter where it is and the ledger flat, and every intent handled is
\* rejected by the Risk Manager; the counter goes down only in a handler that
\* booked an exit fill with pnl_ticks >= 0.
C36_LossLockoutAbsorbing ==
    [][/\ LockedOutFlat =>
             /\ rs'.consec_losses = rs.consec_losses
             /\ positions' = <<>>
             /\ last'.op = "intent" => last'.res = "risk"
       /\ rs'.consec_losses < rs.consec_losses =>
             \E k \in DOMAIN audit' : audit'[k].pnl >= 0
      ]_vars

\* An intent of positive quantity within the cap, handled with the quotes
\* known and the ledger flat, was rejected for the loss streak alone, seconds
\* after the last entry.
C36_Witness ==
    /\ LockedOutFlat
    /\ clock > rs.last_entry_ts + 1
    /\ last.op = "intent" /\ last.res = "risk"
    /\ best_bid # Nil /\ best_ask # Nil
    /\ rs.open_qty = 0
    /\ emitted = <<[topic |-> "exec.log", what |-> "risk"]>>

\* C37: an intent the strategy proposes with entry style LIMIT from a
\* snapshot of positive spread within spread_ticks_max, published by the
\* policy and handled by the Simulator with the quotes of the snapshot still
\* in place and the Risk Manager admitting it, opens a position.
C37_LimitIntentOpens ==
    [][\A snap \in EntrySnaps, r \in {Nil, Some(0)} :
          (/\ PolicyIntent(snap, r)
           /\ best_bid = snap.best_bid /\ best_ask = snap.best_ask
           /\ Get(snap.spread) > 0
           /\ last'.res # "risk")
          => /\ Len(positions') = Len(positions) + 1
             /\ emitted' = <<[topic |-> "exec.position", what |-> "ENTRY"]>>
      ]_vars

\* C38: an intent the Simulator rejects, because the Risk Manager refuses it
\* or because there is no entry price, leaves the ledger (positions, fills,
\* realized P&L) and every field of the RiskState, the last-entry time
\* included, as they were, and publishes one exec.log event and nothing else.
C38_RejectedIntentFrame ==
    [][(last'.op = "intent" /\ last'.res \in {"risk", "px"})
          => /\ positions' = positions
             /\ fills' = fills
             /\ realized' = realized
             /\ rs' = rs
             /\ Len(emitted') = 1
             /\ emitted'[1].topic = "exec.log"
      ]_vars

\* An intent was rejected by the Risk Manager while a position was open and
\* after an exit had been booked.
C38_Witness ==
    /\ last.op = "intent" /\ last.res = "risk"
    /\ positions # <<>> /\ fills # <<>>
    /\ rs.last_entry_ts > 0
    /\ emitted = <<[topic |-> "exec.log", what |-> "risk"]>>

=============================================================================
